---- MODULE Spec2Model ----
(***************************************************************************)
(* Authorization and identity core of the BAFL backend: users, coaches,    *)
(* permission assignments, refresh tokens and access tokens, with the      *)
(* request handlers that read and write them.                              *)
(*                                                                         *)
(* Rows carry the columns the handlers branch on, and assigned_at.  Display *)
(* names and created_at / updated_at / assigned_by columns are never read  *)
(* by a decision and are left out of the rows.                             *)
(***************************************************************************)
EXTENDS Integers, Sequences, FiniteSets, TLC

\* ------------------------------------------------------------------------
\* Bounds of the model
\* ------------------------------------------------------------------------
MaxUserId == 3
MaxCoachId == 1
NumUsernames == 2
MaxRefreshTokens == 3
MaxNow == 8
MaxAssignments == 2
MaxCheckNow == 2

\* Python None for integer-valued and string-valued slots
None == 0 - 1
NoneStr == "None"
\* the result of a query's .first() that matched nothing
NoRow == [id |-> None]

\* ------------------------------------------------------------------------
\* Program constants
\* ------------------------------------------------------------------------
SECRET_KEY == "your-secret-key"
ACCESS_TOKEN_EXPIRE_MINUTES == 1440
REFRESH_TOKEN_EXPIRE_DAYS == 7
\* the model's clock counts days
MinutesPerDay == 24 * 60

INITIAL_ADMIN_USERNAME == "admin"
INITIAL_ADMIN_PASSWORD == "adminpw"

UserRole == {"admin", "user", "coach"}

\* PermissionType, in declaration order
PermissionType ==
  << "create_user", "create_coach", "create_admin",
     "delete_user", "delete_coach", "delete_admin",
     "view_all_users", "edit_all_users",
     "view_own_profile", "edit_own_profile",
     "assign_permissions", "revoke_permissions", "view_permissions",
     "physical_sessions_view", "physical_sessions_edit", "physical_sessions_add" >>

PermissionNames == {PermissionType[i] : i \in DOMAIN PermissionType}

\* the permissions table after create_initial_permissions: one row per
\* PermissionType member, inserted in declaration order
Permissions == {[id |-> i, permission_name |-> PermissionType[i]] : i \in DOMAIN PermissionType}

ROLE_BASE_PERMISSIONS ==
  [r \in UserRole |->
     IF r = "admin"
     THEN {"create_user", "create_coach", "create_admin",
           "delete_user", "delete_coach", "delete_admin",
           "view_all_users", "edit_all_users",
           "assign_permissions", "revoke_permissions", "view_permissions",
           "view_own_profile", "edit_own_profile",
           "physical_sessions_view", "physical_sessions_edit", "physical_sessions_add"}
     ELSE {"view_own_profile", "edit_own_profile",
           "physical_sessions_view", "physical_sessions_edit", "physical_sessions_add"}]

\* ------------------------------------------------------------------------
\* Input domains
\* ------------------------------------------------------------------------
UsernamePool == << "admin", "carter", "dana", "eli" >>
Usernames == {UsernamePool[i] : i \in 1..NumUsernames}
Passwords == {"adminpw"}
UserIds == 1..MaxUserId
CoachIds == 1..MaxCoachId
\* permissions that requests of the model assign and revoke
AssignablePermissions == {"delete_user", "create_coach"}

\* ------------------------------------------------------------------------
\* State
\* ------------------------------------------------------------------------
VARIABLES
  users,             \* users table: [id, username, password, role, is_active]
  coaches,           \* coaches table: [id, username, password, is_active]
  user_permissions,  \* user_permissions table: [id, user_id, coach_id, permission_id, assigned_at]
  refresh_tokens,    \* refresh_tokens table: [id, token, user_id, coach_id, expires_at, is_revoked]
  now,               \* datetime.utcnow(), in days
  resp,              \* the response of the last completed request
  rpc,               \* concurrent refresh_tokens calls: position and locals
  apc,               \* concurrent assign calls: position and locals
  lineage,           \* history: refresh token -> the token it was issued in exchange for
  attendance_sessions,          \* attendance_sessions table: [id, school_id, date, taken_by_user_id]
  attendance_records,           \* attendance_records table: [id, session_id, student_id, status]
  coach_attendance,             \* coach_attendance table: [id, coach_id, coach_name, school_id, date]
  physical_assessment_sessions, \* physical_assessment_sessions table: [id, coach_id, school_id, batch_id, student_count]
  physical_assessment_details   \* physical_assessment_details table: [id, session_id, student_id, curl_up, is_present]

vars == << users, coaches, user_permissions, refresh_tokens, now, resp, rpc, apc, lineage,
           attendance_sessions, attendance_records, coach_attendance,
           physical_assessment_sessions, physical_assessment_details >>

db == << users, coaches, user_permissions, refresh_tokens >>

\* The attendance and physical-assessment tables
school_db == << attendance_sessions, attendance_records, coach_attendance,
               physical_assessment_sessions, physical_assessment_details >>

\* Base.metadata.create_all: the tables exist and are empty
EmptySchoolTables ==
  /\ attendance_sessions = {}
  /\ attendance_records = {}
  /\ coach_attendance = {}
  /\ physical_assessment_sessions = {}
  /\ physical_assessment_details = {}

\* ------------------------------------------------------------------------
\* Helpers
\* ------------------------------------------------------------------------
MaxOf(S) == CHOOSE m \in S : \A x \in S : x <= m

\* Integer primary key of a new row (SQLite rowid: one past the largest)
NextId(rows) == IF rows = {} THEN 1 ELSE MaxOf({r.id : r \in rows}) + 1

\* query(...).first()
First(rows) == IF rows = {} THEN NoRow ELSE CHOOSE r \in rows : \A q \in rows : r.id <= q.id

\* PasswordHandler: bcrypt hash and verification
PasswordHandler_hash(password) == << "bcrypt", password >>
PasswordHandler_verify(plain_password, hashed_password) ==
  hashed_password = PasswordHandler_hash(plain_password)

UserRepository_get_by_id(user_id) == First({u \in users : u.id = user_id})
UserRepository_get_by_username(username) == First({u \in users : u.username = username})
UserRepository_exists_by_username(username) == UserRepository_get_by_username(username) # NoRow
CoachRepository_get_by_id(coach_id) == First({c \in coaches : c.id = coach_id})
CoachRepository_get_by_username(username) == First({c \in coaches : c.username = username})

PermissionRepository_get_by_name(name) == First({p \in Permissions : p.permission_name = name})
PermissionRepository_get_by_id(permission_id) == First({p \in Permissions : p.id = permission_id})
\* every PermissionType name is seeded, so get_or_create finds the row
PermissionRepository_get_or_create(name) == PermissionRepository_get_by_name(name)

\* ------------------------------------------------------------------------
\* Token Service (core/security.py, services/auth_service.py)
\* ------------------------------------------------------------------------
JWTError == [error |-> "JWTError"]

\* dict.get on a decoded payload, for integer and for string claims
PayloadGetInt(payload, key) == IF key \in DOMAIN payload THEN payload[key] ELSE None
PayloadGetStr(payload, key) == IF key \in DOMAIN payload THEN payload[key] ELSE NoneStr

\* _build_access_token_payload writing the coach's id under user_id
build_access_token_payload_coach_as_user_id(principal_type, principal) ==
  IF principal_type = "user" /\ "role" \in DOMAIN principal
  THEN [sub |-> principal.username, subject_type |-> principal_type,
        user_id |-> principal.id, role |-> principal.role]
  ELSE IF principal_type = "coach" /\ "role" \notin DOMAIN principal
  THEN [sub |-> principal.username, subject_type |-> principal_type,
        user_id |-> principal.id]
  ELSE [sub |-> principal.username, subject_type |-> principal_type]

\* AuthService._build_access_token_payload
build_access_token_payload(principal_type, principal) ==
  IF principal_type = "user" /\ "role" \in DOMAIN principal
  THEN [sub |-> principal.username, subject_type |-> principal_type,
        user_id |-> principal.id, role |-> principal.role]
  ELSE IF principal_type = "coach" /\ "role" \notin DOMAIN principal
  THEN [sub |-> principal.username, subject_type |-> principal_type,
        coach_id |-> principal.id]
  ELSE [sub |-> principal.username, subject_type |-> principal_type]

\* TokenHandler.create_access_token at clock value t: the claims plus exp,
\* type and iat, signed with the configured secret
create_access_token(data, t) ==
  [claims |-> data @@ [exp |-> t + (ACCESS_TOKEN_EXPIRE_MINUTES \div MinutesPerDay),
                       type |-> "access", iat |-> t],
   sig |-> SECRET_KEY]

\* TokenHandler.decode_token at clock value t: signature and expiry are
\* verified, anything else is a JWTError
decode_token(token, t) ==
  IF token.sig # SECRET_KEY THEN JWTError
  ELSE IF "exp" \in DOMAIN token.claims /\ token.claims.exp < t THEN JWTError
  ELSE token.claims

\* ------------------------------------------------------------------------
\* Permission Resolution Engine (services/permission_service.py)
\* ------------------------------------------------------------------------
UserPermissionRepository_get_user_permissions(user_id) ==
  {a \in user_permissions : a.user_id = user_id}

UserPermissionRepository_get_coach_permissions(coach_id) ==
  {a \in user_permissions : a.coach_id = coach_id}

\* assignment.permission.permission_name
AssignmentPermissionName(a) == PermissionRepository_get_by_id(a.permission_id).permission_name

\* principal.role: the column of a User row, the Coach.role property otherwise
RoleOf(principal) == IF "role" \in DOMAIN principal THEN principal.role ELSE "coach"

\* get_user_permissions reading the role's base set alone
get_user_permissions_base_only(user) ==
  IF RoleOf(user) \in DOMAIN ROLE_BASE_PERMISSIONS
  THEN ROLE_BASE_PERMISSIONS[RoleOf(user)] ELSE {}

\* PermissionService.get_user_permissions, as the set of names it lists
get_user_permissions(user) ==
  (IF RoleOf(user) \in DOMAIN ROLE_BASE_PERMISSIONS
   THEN ROLE_BASE_PERMISSIONS[RoleOf(user)] ELSE {})
  \cup {AssignmentPermissionName(a) : a \in UserPermissionRepository_get_user_permissions(user.id)}

\* the PermissionType values in Python's str order (code points: "_" sorts
\* before the lowercase letters)
ValueOrder ==
  << "assign_permissions", "create_admin", "create_coach", "create_user",
     "delete_admin", "delete_coach", "delete_user",
     "edit_all_users", "edit_own_profile",
     "physical_sessions_add", "physical_sessions_edit", "physical_sessions_view",
     "revoke_permissions", "view_all_users", "view_own_profile", "view_permissions" >>

ValueRank(name) == CHOOSE i \in DOMAIN ValueOrder : ValueOrder[i] = name

\* sorted(normalized, key=lambda perm: perm.value)
RECURSIVE SortByValue(_)
SortByValue(names) ==
  IF names = {} THEN << >>
  ELSE LET least == CHOOSE n \in names : \A m \in names : ValueRank(n) <= ValueRank(m) IN
       << least >> \o SortByValue(names \ {least})

\* PermissionService.get_user_permissions, as the list it returns
get_user_permissions_list(user) == SortByValue(get_user_permissions(user))

has_permission(user, permission) == permission \in get_user_permissions(user)

\* get_create_permission_for_role with every role mapped to create_user
get_create_permission_for_role_user_only(target_role) ==
  IF target_role \in UserRole THEN "create_user" ELSE NoneStr

get_create_permission_for_role(target_role) ==
  CASE target_role = "user" -> "create_user"
    [] target_role = "coach" -> "create_coach"
    [] target_role = "admin" -> "create_admin"
    [] OTHER -> NoneStr

\* get_delete_permission_for_role with every role mapped to delete_user
get_delete_permission_for_role_user_only(target_role) ==
  IF target_role \in UserRole THEN "delete_user" ELSE NoneStr

get_delete_permission_for_role(target_role) ==
  CASE target_role = "user" -> "delete_user"
    [] target_role = "coach" -> "delete_coach"
    [] target_role = "admin" -> "delete_admin"
    [] OTHER -> NoneStr

can_create_role(creator, target_role) ==
  LET required_permission == get_create_permission_for_role(target_role) IN
  IF required_permission = NoneStr THEN FALSE
  ELSE has_permission(creator, required_permission)

\* can_delete_user satisfied by any delete permission
can_delete_user_any_delete_permission(deleter, target_user) ==
  \E p \in {"delete_user", "delete_coach", "delete_admin"} : has_permission(deleter, p)

can_delete_user(deleter, target_user) ==
  LET required_permission == get_delete_permission_for_role(target_user.role) IN
  IF required_permission = NoneStr THEN FALSE
  ELSE has_permission(deleter, required_permission)

\* can_manage_permissions without the role condition
can_manage_permissions_any_role(manager, target_user) ==
  manager.id # target_user.id /\ has_permission(manager, "assign_permissions")

can_manage_permissions(manager, target_user) ==
  IF manager.id = target_user.id THEN FALSE
  ELSE IF manager.role # "admin" THEN FALSE
  ELSE IF ~has_permission(manager, "assign_permissions") THEN FALSE
  ELSE TRUE

\* ------------------------------------------------------------------------
\* Identity Resolver (api/v1/dependencies/auth.py)
\* ------------------------------------------------------------------------
Unauthenticated == [status |-> 401, detail |-> "Could not validate credentials",
                    subject_type |-> NoneStr, user |-> NoRow, coach |-> NoRow]

\* get_current_identity without the is_active checks
get_current_identity_ignoring_is_active(token) ==
  LET payload == decode_token(token, now)
      subject_type == PayloadGetStr(payload, "subject_type")
      user == UserRepository_get_by_id(PayloadGetInt(payload, "user_id"))
      coach == CoachRepository_get_by_id(PayloadGetInt(payload, "coach_id")) IN
  IF payload = JWTError THEN Unauthenticated
  ELSE IF subject_type = "user" /\ user # NoRow
  THEN [status |-> 200, detail |-> "ok", subject_type |-> "user", user |-> user, coach |-> NoRow]
  ELSE IF subject_type = "coach" /\ coach # NoRow
  THEN [status |-> 200, detail |-> "ok", subject_type |-> "coach", user |-> NoRow, coach |-> coach]
  ELSE Unauthenticated

\* get_current_identity refusing a principal one of whose refresh tokens is
\* revoked
get_current_identity_checking_revocation(token) ==
  LET identity == get_current_identity_ignoring_is_active(token)
      revoked == \E r \in refresh_tokens :
                   /\ r.is_revoked
                   /\ \/ identity.user # NoRow /\ r.user_id = identity.user.id
                      \/ identity.coach # NoRow /\ r.coach_id = identity.coach.id IN
  IF identity.status # 200 THEN identity
  ELSE IF revoked THEN Unauthenticated
  ELSE IF identity.user # NoRow /\ ~identity.user.is_active
  THEN [status |-> 403, detail |-> "Inactive user account",
        subject_type |-> NoneStr, user |-> NoRow, coach |-> NoRow]
  ELSE IF identity.coach # NoRow /\ ~identity.coach.is_active
  THEN [status |-> 403, detail |-> "Inactive coach account",
        subject_type |-> NoneStr, user |-> NoRow, coach |-> NoRow]
  ELSE identity

get_current_identity(token) ==
  LET payload == decode_token(token, now) IN
  IF payload = JWTError THEN Unauthenticated
  ELSE
    LET subject_type == PayloadGetStr(payload, "subject_type") IN
    IF subject_type \notin {"user", "coach"} THEN Unauthenticated
    ELSE IF subject_type = "user"
    THEN LET user_id == PayloadGetInt(payload, "user_id") IN
         IF user_id = None THEN Unauthenticated
         ELSE LET user == UserRepository_get_by_id(user_id) IN
              IF user = NoRow THEN Unauthenticated
              ELSE IF ~user.is_active
              THEN [status |-> 403, detail |-> "Inactive user account",
                    subject_type |-> NoneStr, user |-> NoRow, coach |-> NoRow]
              ELSE [status |-> 200, detail |-> "ok",
                    subject_type |-> "user", user |-> user, coach |-> NoRow]
    ELSE LET coach_id == PayloadGetInt(payload, "coach_id") IN
         IF coach_id = None THEN Unauthenticated
         ELSE LET coach == CoachRepository_get_by_id(coach_id) IN
              IF coach = NoRow THEN Unauthenticated
              ELSE IF ~coach.is_active
              THEN [status |-> 403, detail |-> "Inactive coach account",
                    subject_type |-> NoneStr, user |-> NoRow, coach |-> NoRow]
              ELSE [status |-> 200, detail |-> "ok",
                    subject_type |-> "coach", user |-> NoRow, coach |-> coach]

\* get_current_user handing a coach identity the User row with the coach's id
get_current_user_by_shared_id(token) ==
  LET identity == get_current_identity(token) IN
  IF identity.status # 200 THEN identity
  ELSE IF identity.user = NoRow
  THEN [identity EXCEPT !.user = UserRepository_get_by_id(identity.coach.id)]
  ELSE identity

get_current_user(token) ==
  LET identity == get_current_identity(token) IN
  IF identity.status # 200 THEN identity
  ELSE IF identity.user = NoRow
  THEN [status |-> 403, detail |-> "User credentials required",
        subject_type |-> NoneStr, user |-> NoRow, coach |-> NoRow]
  ELSE identity

\* require_permission deciding from the token's role claim, not from the row
require_permission_from_claims(token, permission) ==
  LET auth == get_current_user(token) IN
  IF auth.status # 200 THEN auth
  ELSE IF ~has_permission([auth.user EXCEPT !.role = PayloadGetStr(token.claims, "role")],
                          permission)
  THEN [status |-> 403, detail |-> "Missing required permission",
        subject_type |-> NoneStr, user |-> NoRow, coach |-> NoRow]
  ELSE auth

\* require_permission(permission): the dependency's verdict for a token
require_permission(token, permission) ==
  LET auth == get_current_user(token) IN
  IF auth.status # 200 THEN auth
  ELSE IF ~has_permission(auth.user, permission)
  THEN [status |-> 403, detail |-> "Missing required permission",
        subject_type |-> NoneStr, user |-> NoRow, coach |-> NoRow]
  ELSE auth

\* coaches.require_admin
require_admin(token) ==
  LET auth == get_current_user(token) IN
  IF auth.status # 200 THEN auth
  ELSE IF auth.user.role # "admin"
  THEN [status |-> 403, detail |-> "Admin privileges required",
        subject_type |-> NoneStr, user |-> NoRow, coach |-> NoRow]
  ELSE auth

\* can_access_user without the comparison of the ids
can_access_user_any_target(target_user_id, current_user) ==
  IF has_permission(current_user, "view_all_users") THEN TRUE
  ELSE has_permission(current_user, "view_own_profile")

can_access_user(target_user_id, current_user) ==
  IF has_permission(current_user, "view_all_users") THEN TRUE
  ELSE IF current_user.id = target_user_id THEN has_permission(current_user, "view_own_profile")
  ELSE FALSE

can_edit_user(target_user_id, current_user) ==
  IF has_permission(current_user, "edit_all_users") THEN TRUE
  ELSE IF current_user.id = target_user_id THEN has_permission(current_user, "edit_own_profile")
  ELSE FALSE

\* role claims of the access tokens requests present; the resolver never reads it
TokenRoles == {"user"}

\* Access tokens a client may present: issued at the current clock value to a
\* user or coach that held the id at the time
UserAccessTokens ==
  {create_access_token(
     build_access_token_payload("user", [id |-> i, username |-> n, role |-> r]), now)
   : i \in UserIds, n \in {UsernamePool[1]}, r \in TokenRoles}

CoachAccessTokens ==
  {create_access_token(
     build_access_token_payload("coach", [id |-> i, username |-> n]), now)
   : i \in CoachIds, n \in {UsernamePool[1]}}

AccessTokens == UserAccessTokens \cup CoachAccessTokens

\* ------------------------------------------------------------------------
\* Initial state: the database after setup_database()
\* ------------------------------------------------------------------------
InitialAdmin ==
  [id |-> 1, username |-> INITIAL_ADMIN_USERNAME,
   password |-> PasswordHandler_hash(INITIAL_ADMIN_PASSWORD),
   role |-> "admin", is_active |-> TRUE]

NoResponse == [op |-> "none", status |-> 0, detail |-> "none", actor |-> None, target |-> None,
               presented |-> None, issued |-> None]

Init ==
  /\ users = {InitialAdmin}
  /\ coaches = {}
  /\ user_permissions = {}
  /\ refresh_tokens = {}
  /\ now = 0
  /\ resp = NoResponse
  /\ rpc = << >>
  /\ apc = << >>
  /\ lineage = << >>
  /\ EmptySchoolTables

Respond(op, status, detail, actor, target) ==
  resp' = [op |-> op, status |-> status, detail |-> detail, actor |-> actor, target |-> target,
           presented |-> None, issued |-> None]

\* ORM cascade="all, delete-orphan" on User.permissions / User.refresh_tokens
\* and on Coach.permissions / Coach.refresh_tokens
CascadeUsers(perms, gone) == {a \in perms : a.user_id \notin gone}
CascadeCoaches(perms, gone) == {a \in perms : a.coach_id \notin gone}

\* ------------------------------------------------------------------------
\* User management (api/v1/endpoints/users.py, services/user_service.py)
\* ------------------------------------------------------------------------
\* POST /users/
CreateUserReq(token, username, password, role) ==
  LET auth == get_current_user(token) IN
  IF auth.status # 200
  THEN /\ Respond("create_user", auth.status, auth.detail, None, None)
       /\ UNCHANGED << school_db, db, now, rpc, apc, lineage >>
  ELSE IF ~can_create_role(auth.user, role)
  THEN /\ Respond("create_user", 403, "You do not have permission to create users with role",
                  auth.user.id, None)
       /\ UNCHANGED << school_db, db, now, rpc, apc, lineage >>
  ELSE IF UserRepository_exists_by_username(username)
  THEN /\ Respond("create_user", 400, "Username already exists", auth.user.id, None)
       /\ UNCHANGED << school_db, db, now, rpc, apc, lineage >>
  ELSE /\ NextId(users) <= MaxUserId
       /\ users' = users \cup {[id |-> NextId(users), username |-> username,
                                password |-> PasswordHandler_hash(password),
                                role |-> role, is_active |-> TRUE]}
       /\ Respond("create_user", 201, "created", auth.user.id, NextId(users))
       /\ UNCHANGED << school_db, coaches, user_permissions, refresh_tokens, now, rpc, apc, lineage >>

\* PUT /users/{user_id}; absent fields are None
UpdateUserReq(token, user_id, username, password, is_active) ==
  LET auth == get_current_user(token) IN
  IF auth.status # 200
  THEN /\ Respond("update_user", auth.status, auth.detail, None, user_id)
       /\ UNCHANGED << school_db, db, now, rpc, apc, lineage >>
  ELSE IF ~can_edit_user(user_id, auth.user)
  THEN /\ Respond("update_user", 403, "You can only edit your own profile", auth.user.id, user_id)
       /\ UNCHANGED << school_db, db, now, rpc, apc, lineage >>
  ELSE LET user == UserRepository_get_by_id(user_id)
           existing_user == UserRepository_get_by_username(username) IN
    IF user = NoRow
    THEN /\ Respond("update_user", 404, "User not found", auth.user.id, user_id)
         /\ UNCHANGED << school_db, db, now, rpc, apc, lineage >>
    ELSE IF username # NoneStr /\ existing_user # NoRow /\ existing_user.id # user_id
    THEN /\ Respond("update_user", 400, "Username already exists", auth.user.id, user_id)
         /\ UNCHANGED << school_db, db, now, rpc, apc, lineage >>
    ELSE /\ users' = (users \ {user}) \cup
                {[user EXCEPT
                    !.username = IF username # NoneStr THEN username ELSE @,
                    !.password = IF password # NoneStr THEN PasswordHandler_hash(password) ELSE @,
                    !.is_active = IF is_active # NoneStr THEN is_active = "true" ELSE @]}
         /\ Respond("update_user", 200, "updated", auth.user.id, user_id)
         /\ UNCHANGED << school_db, coaches, user_permissions, refresh_tokens, now, rpc, apc, lineage >>

\* UserService.delete_user: the self-protection guard, then the delete
UserService_delete_user(target_user, deleter) ==
  IF target_user.id = deleter.id
  THEN /\ Respond("delete_user", 400, "Cannot delete your own account", deleter.id, target_user.id)
       /\ UNCHANGED << school_db, db, now, rpc, apc, lineage >>
  ELSE /\ users' = users \ {target_user}
       /\ user_permissions' = CascadeUsers(user_permissions, {target_user.id})
       /\ refresh_tokens' = CascadeUsers(refresh_tokens, {target_user.id})
       /\ Respond("delete_user", 200, "User deleted successfully", deleter.id, target_user.id)
       /\ UNCHANGED << school_db, coaches, now, rpc, apc, lineage >>

\* DELETE /users/{user_id}
DeleteUserReq(token, user_id) ==
  LET auth == get_current_user(token) IN
  IF auth.status # 200
  THEN /\ Respond("delete_user", auth.status, auth.detail, None, user_id)
       /\ UNCHANGED << school_db, db, now, rpc, apc, lineage >>
  ELSE LET target_user == UserRepository_get_by_id(user_id) IN
    IF target_user = NoRow
    THEN /\ Respond("delete_user", 404, "User not found", auth.user.id, user_id)
         /\ UNCHANGED << school_db, db, now, rpc, apc, lineage >>
    ELSE IF ~can_delete_user(auth.user, target_user)
    THEN /\ Respond("delete_user", 403, "Missing required permission", auth.user.id, user_id)
         /\ UNCHANGED << school_db, db, now, rpc, apc, lineage >>
    ELSE UserService_delete_user(target_user, auth.user)

\* ------------------------------------------------------------------------
\* Coach management (api/v1/endpoints/coaches.py, services/coach_service.py)
\* Requests carry no schools and no batches.
\* ------------------------------------------------------------------------
\* POST /coaches/
CreateCoachReq(token, username, password) ==
  LET auth == require_admin(token) IN
  IF auth.status # 200
  THEN /\ Respond("create_coach", auth.status, auth.detail, None, None)
       /\ UNCHANGED << school_db, db, now, rpc, apc, lineage >>
  ELSE IF CoachRepository_get_by_username(username) # NoRow
  THEN /\ Respond("create_coach", 400, "Username already in use", auth.user.id, None)
       /\ UNCHANGED << school_db, db, now, rpc, apc, lineage >>
  ELSE /\ NextId(coaches) <= MaxCoachId
       /\ coaches' = coaches \cup {[id |-> NextId(coaches), username |-> username,
                                    password |-> PasswordHandler_hash(password),
                                    is_active |-> TRUE]}
       /\ IF UserRepository_get_by_username(username) = NoRow
          THEN /\ NextId(users) <= MaxUserId
               /\ users' = users \cup {[id |-> NextId(users), username |-> username,
                                        password |-> PasswordHandler_hash(password),
                                        role |-> "coach", is_active |-> TRUE]}
          ELSE users' = users
       /\ Respond("create_coach", 201, "Coach created successfully", auth.user.id, NextId(coaches))
       /\ UNCHANGED << school_db, user_permissions, refresh_tokens, now, rpc, apc, lineage >>

\* DELETE /coaches/{coach_id}
DeleteCoachReq(token, coach_id) ==
  LET auth == require_admin(token) IN
  IF auth.status # 200
  THEN /\ Respond("delete_coach", auth.status, auth.detail, None, coach_id)
       /\ UNCHANGED << school_db, db, now, rpc, apc, lineage >>
  ELSE LET coach == CoachRepository_get_by_id(coach_id) IN
    IF coach = NoRow
    THEN /\ Respond("delete_coach", 404, "Coach not found", auth.user.id, coach_id)
         /\ UNCHANGED << school_db, db, now, rpc, apc, lineage >>
    ELSE LET user == UserRepository_get_by_username(coach.username)
             gone == IF user = NoRow THEN {} ELSE {user.id} IN
         /\ coaches' = coaches \ {coach}
         /\ users' = users \ {user}
         /\ user_permissions' = CascadeUsers(CascadeCoaches(user_permissions, {coach.id}), gone)
         /\ refresh_tokens' = CascadeUsers(CascadeCoaches(refresh_tokens, {coach.id}), gone)
         /\ Respond("delete_coach", 204, "deleted", auth.user.id, coach_id)
         /\ UNCHANGED << school_db, now, rpc, apc, lineage >>

\* ------------------------------------------------------------------------
\* Permission assignment (services/permission_service.py,
\* db/repositories/permission_repository.py, api/v1/endpoints/permissions.py)
\* ------------------------------------------------------------------------
\* a lookup that never finds a row
UserPermissionRepository_has_permission_never(permission_id, user_id, coach_id) == FALSE

\* UserPermissionRepository.has_permission: the explicit-row lookup
UserPermissionRepository_has_permission(permission_id, user_id, coach_id) ==
  \E a \in user_permissions :
     /\ a.permission_id = permission_id
     /\ (user_id # None => a.user_id = user_id)
     /\ (coach_id # None => a.coach_id = coach_id)

\* the table without its unique constraints: the check constraint alone
IntegrityError_check_only(perms, row) == row.user_id = None /\ row.coach_id = None

\* UserPermission.__table_args__: the two unique constraints (NULLs never
\* collide) and the target check constraint, as the database applies them to
\* an INSERT
IntegrityError(perms, row) ==
  \/ row.user_id # None /\
       \E a \in perms : a.user_id = row.user_id /\ a.permission_id = row.permission_id
  \/ row.coach_id # None /\
       \E a \in perms : a.coach_id = row.coach_id /\ a.permission_id = row.permission_id
  \/ row.user_id = None /\ row.coach_id = None

\* the row UserPermissionRepository.assign_permission adds
NewAssignment(perms, permission_id, user_id, coach_id) ==
  [id |-> NextId(perms), user_id |-> user_id, coach_id |-> coach_id,
   permission_id |-> permission_id, assigned_at |-> now]

\* the row UserPermissionRepository.revoke_permission deletes (query.first())
RevokeTarget(permission_id, user_id, coach_id) ==
  First({a \in user_permissions :
           /\ a.permission_id = permission_id
           /\ (user_id # None => a.user_id = user_id)
           /\ (coach_id # None => a.coach_id = coach_id)})

\* PermissionService.assign_permission
PermissionService_assign_permission(user_id, permission_type, assigner) ==
  LET permission == PermissionRepository_get_or_create(permission_type)
      row == NewAssignment(user_permissions, permission.id, user_id, None) IN
  IF UserPermissionRepository_has_permission(permission.id, user_id, None)
  THEN /\ Respond("assign", 400, "Permission already assigned to user", assigner.id, user_id)
       /\ UNCHANGED << school_db, db, now, rpc, apc, lineage >>
  ELSE IF IntegrityError(user_permissions, row)
  THEN /\ Respond("assign", 500, "IntegrityError", assigner.id, user_id)
       /\ UNCHANGED << school_db, db, now, rpc, apc, lineage >>
  ELSE /\ row.id <= MaxAssignments
       /\ user_permissions' = user_permissions \cup {row}
       /\ Respond("assign", 200, permission_type, assigner.id, user_id)
       /\ UNCHANGED << school_db, users, coaches, refresh_tokens, now, rpc, apc, lineage >>

\* revoke_permission taking a permission of the user's role base set for an
\* assigned one
PermissionService_revoke_permission_accepting_base(user_id, permission_type, revoker) ==
  LET permission == PermissionRepository_get_by_name(permission_type)
      found == RevokeTarget(permission.id, user_id, None)
      target == UserRepository_get_by_id(user_id) IN
  IF permission = NoRow
  THEN /\ Respond("revoke", 404, "Permission not found", revoker.id, user_id)
       /\ UNCHANGED << school_db, db, now, rpc, apc, lineage >>
  ELSE IF found = NoRow /\ permission_type \notin ROLE_BASE_PERMISSIONS[target.role]
  THEN /\ Respond("revoke", 400, "Permission was not assigned to user", revoker.id, user_id)
       /\ UNCHANGED << school_db, db, now, rpc, apc, lineage >>
  ELSE /\ user_permissions' = user_permissions \ {found}
       /\ Respond("revoke", 200, permission_type, revoker.id, user_id)
       /\ UNCHANGED << school_db, users, coaches, refresh_tokens, now, rpc, apc, lineage >>

\* PermissionService.revoke_permission
PermissionService_revoke_permission(user_id, permission_type, revoker) ==
  LET permission == PermissionRepository_get_by_name(permission_type) IN
  IF permission = NoRow
  THEN /\ Respond("revoke", 404, "Permission not found", revoker.id, user_id)
       /\ UNCHANGED << school_db, db, now, rpc, apc, lineage >>
  ELSE LET found == RevokeTarget(permission.id, user_id, None) IN
    IF found = NoRow
    THEN /\ Respond("revoke", 400, "Permission was not assigned to user", revoker.id, user_id)
         /\ UNCHANGED << school_db, db, now, rpc, apc, lineage >>
    ELSE /\ user_permissions' = user_permissions \ {found}
         /\ Respond("revoke", 200, permission_type, revoker.id, user_id)
         /\ UNCHANGED << school_db, users, coaches, refresh_tokens, now, rpc, apc, lineage >>

\* user_id == 0 / coach_id == 0 are read as None
ZeroAsNone(id) == IF id = 0 THEN None ELSE id

\* the target a by-id call names, for the response record
ByIdTarget(user_id, coach_id) ==
  IF ZeroAsNone(user_id) # None THEN ZeroAsNone(user_id) ELSE ZeroAsNone(coach_id)

\* PermissionService.assign_permission_by_id
PermissionService_assign_permission_by_id(permission_id, assigner, user_id, coach_id) ==
  LET uid == ZeroAsNone(user_id)
      cid == ZeroAsNone(coach_id)
      permission == PermissionRepository_get_by_id(permission_id)
      row == NewAssignment(user_permissions, permission_id, uid, cid) IN
  IF (uid = None) = (cid = None)
  THEN /\ Respond("assign_by_id", 400, "Provide exactly one of user_id or coach_id",
                  assigner.id, ByIdTarget(user_id, coach_id))
       /\ UNCHANGED << school_db, db, now, rpc, apc, lineage >>
  ELSE IF permission = NoRow
  THEN /\ Respond("assign_by_id", 404, "Permission not found", assigner.id,
                  ByIdTarget(user_id, coach_id))
       /\ UNCHANGED << school_db, db, now, rpc, apc, lineage >>
  ELSE IF UserPermissionRepository_has_permission(permission_id, uid, cid)
  THEN /\ Respond("assign_by_id", 400, "Permission already assigned", assigner.id,
                  ByIdTarget(user_id, coach_id))
       /\ UNCHANGED << school_db, db, now, rpc, apc, lineage >>
  ELSE IF IntegrityError(user_permissions, row)
  THEN /\ Respond("assign_by_id", 500, "IntegrityError", assigner.id,
                  ByIdTarget(user_id, coach_id))
       /\ UNCHANGED << school_db, db, now, rpc, apc, lineage >>
  ELSE /\ row.id <= MaxAssignments
       /\ user_permissions' = user_permissions \cup {row}
       /\ Respond("assign_by_id", 200, permission.permission_name, assigner.id,
                  ByIdTarget(user_id, coach_id))
       /\ UNCHANGED << school_db, users, coaches, refresh_tokens, now, rpc, apc, lineage >>

\* PermissionService.revoke_permission_by_id
PermissionService_revoke_permission_by_id(permission_id, revoker, user_id, coach_id) ==
  LET uid == ZeroAsNone(user_id)
      cid == ZeroAsNone(coach_id)
      permission == PermissionRepository_get_by_id(permission_id)
      found == RevokeTarget(permission_id, uid, cid) IN
  IF (uid = None) = (cid = None)
  THEN /\ Respond("revoke_by_id", 400, "Provide exactly one of user_id or coach_id",
                  revoker.id, ByIdTarget(user_id, coach_id))
       /\ UNCHANGED << school_db, db, now, rpc, apc, lineage >>
  ELSE IF permission = NoRow
  THEN /\ Respond("revoke_by_id", 404, "Permission not found", revoker.id,
                  ByIdTarget(user_id, coach_id))
       /\ UNCHANGED << school_db, db, now, rpc, apc, lineage >>
  ELSE IF found = NoRow
  THEN /\ Respond("revoke_by_id", 400, "Permission not assigned to target", revoker.id,
                  ByIdTarget(user_id, coach_id))
       /\ UNCHANGED << school_db, db, now, rpc, apc, lineage >>
  ELSE /\ user_permissions' = user_permissions \ {found}
       /\ Respond("revoke_by_id", 200, permission.permission_name, revoker.id,
                  ByIdTarget(user_id, coach_id))
       /\ UNCHANGED << school_db, users, coaches, refresh_tokens, now, rpc, apc, lineage >>

\* POST /permissions/assign
AssignPermissionReq(token, user_id, permission) ==
  LET auth == require_permission(token, "assign_permissions") IN
  IF auth.status # 200
  THEN /\ Respond("assign", auth.status, auth.detail, None, user_id)
       /\ UNCHANGED << school_db, db, now, rpc, apc, lineage >>
  ELSE LET target_user == UserRepository_get_by_id(user_id) IN
    IF target_user = NoRow
    THEN /\ Respond("assign", 404, "User not found", auth.user.id, user_id)
         /\ UNCHANGED << school_db, db, now, rpc, apc, lineage >>
    ELSE IF ~can_manage_permissions(auth.user, target_user)
    THEN /\ Respond("assign", 403, "You do not have permission to manage this user's permissions",
                    auth.user.id, user_id)
         /\ UNCHANGED << school_db, db, now, rpc, apc, lineage >>
    ELSE PermissionService_assign_permission(user_id, permission, auth.user)

\* POST /permissions/revoke
RevokePermissionReq(token, user_id, permission) ==
  LET auth == require_permission(token, "revoke_permissions") IN
  IF auth.status # 200
  THEN /\ Respond("revoke", auth.status, auth.detail, None, user_id)
       /\ UNCHANGED << school_db, db, now, rpc, apc, lineage >>
  ELSE LET target_user == UserRepository_get_by_id(user_id) IN
    IF target_user = NoRow
    THEN /\ Respond("revoke", 404, "User not found", auth.user.id, user_id)
         /\ UNCHANGED << school_db, db, now, rpc, apc, lineage >>
    ELSE IF ~can_manage_permissions(auth.user, target_user)
    THEN /\ Respond("revoke", 403, "You do not have permission to manage this user's permissions",
                    auth.user.id, user_id)
         /\ UNCHANGED << school_db, db, now, rpc, apc, lineage >>
    ELSE PermissionService_revoke_permission(user_id, permission, auth.user)

\* ------------------------------------------------------------------------
\* Authentication (services/auth_service.py, api/v1/endpoints/auth.py,
\* RefreshTokenRepository in db/repositories/permission_repository.py)
\* ------------------------------------------------------------------------
\* secrets.token_urlsafe(32): a string no earlier call returned; tokens are
\* named by their order of issue
FreshToken == Len(lineage) + 1

RefreshTokenRepository_get_by_token(token) ==
  LET found == {r \in refresh_tokens : r.token = token} IN
  IF found = {} THEN NoRow ELSE CHOOSE r \in found : TRUE

\* the row RefreshTokenRepository.create persists
NewRefreshToken(rows, user_id, coach_id) ==
  [id |-> NextId(rows), token |-> FreshToken, user_id |-> user_id, coach_id |-> coach_id,
   expires_at |-> now + REFRESH_TOKEN_EXPIRE_DAYS, is_revoked |-> FALSE]

\* a revoke that writes nothing
RefreshTokenRepository_revoke_nothing(rows, token) == rows

\* the table after RefreshTokenRepository.revoke(token): the matching row's
\* flag is set whatever it was
RefreshTokenRepository_revoke(rows, token) ==
  {IF r.token = token THEN [r EXCEPT !.is_revoked = TRUE] ELSE r : r \in rows}

\* authenticate_user going on to the coach table when the user is inactive
authenticate_user_falling_through(username, password) ==
  LET user == UserRepository_get_by_username(username)
      coach == CoachRepository_get_by_username(username) IN
  IF user # NoRow /\ ~PasswordHandler_verify(password, user.password)
  THEN [kind |-> NoneStr, principal |-> NoRow]
  ELSE IF user # NoRow /\ user.is_active THEN [kind |-> "user", principal |-> user]
  ELSE IF coach = NoRow THEN [kind |-> NoneStr, principal |-> NoRow]
  ELSE IF ~PasswordHandler_verify(password, coach.password) THEN [kind |-> NoneStr, principal |-> NoRow]
  ELSE IF ~coach.is_active THEN [kind |-> NoneStr, principal |-> NoRow]
  ELSE [kind |-> "coach", principal |-> coach]

\* AuthService.authenticate_user: the user table first, the coach table only
\* when no user carries the username
authenticate_user(username, password) ==
  LET user == UserRepository_get_by_username(username)
      coach == CoachRepository_get_by_username(username) IN
  IF user # NoRow
  THEN IF ~PasswordHandler_verify(password, user.password) THEN [kind |-> NoneStr, principal |-> NoRow]
       ELSE IF ~user.is_active THEN [kind |-> NoneStr, principal |-> NoRow]
       ELSE [kind |-> "user", principal |-> user]
  ELSE IF coach = NoRow THEN [kind |-> NoneStr, principal |-> NoRow]
  ELSE IF ~PasswordHandler_verify(password, coach.password) THEN [kind |-> NoneStr, principal |-> NoRow]
  ELSE IF ~coach.is_active THEN [kind |-> NoneStr, principal |-> NoRow]
  ELSE [kind |-> "coach", principal |-> coach]

\* AuthService.create_tokens: the refresh-token row it persists for the principal
create_tokens_row(rows, principal_type, principal) ==
  IF principal_type = "user"
  THEN NewRefreshToken(rows, principal.id, None)
  ELSE NewRefreshToken(rows, None, principal.id)

\* POST /auth/login
Login(username, password) ==
  LET identity == authenticate_user(username, password) IN
  IF identity.kind = NoneStr
  THEN /\ Respond("login", 401, "Incorrect username or password", None, None)
       /\ UNCHANGED << school_db, db, now, rpc, apc, lineage >>
  ELSE LET row == create_tokens_row(refresh_tokens, identity.kind, identity.principal) IN
       /\ Len(lineage) < MaxRefreshTokens
       /\ refresh_tokens' = refresh_tokens \cup {row}
       /\ lineage' = Append(lineage, None)
       /\ resp' = [op |-> "login", status |-> 200, detail |-> identity.kind,
                   actor |-> identity.principal.id, target |-> None,
                   presented |-> None, issued |-> row.token]
       /\ UNCHANGED << school_db, users, coaches, user_permissions, now, rpc, apc >>

\* the principal a refresh-token row belongs to, as refresh_tokens resolves it:
\* NoneStr kind and the 401 detail when the principal is missing or inactive
RefreshPrincipal(token_obj) ==
  IF token_obj.user_id # None
  THEN LET user == UserRepository_get_by_id(token_obj.user_id) IN
       IF user = NoRow \/ ~user.is_active
       THEN [kind |-> NoneStr, principal |-> NoRow, detail |-> "User not found or inactive"]
       ELSE [kind |-> "user", principal |-> user, detail |-> "ok"]
  ELSE IF token_obj.coach_id # None
  THEN LET coach == CoachRepository_get_by_id(token_obj.coach_id) IN
       IF coach = NoRow \/ ~coach.is_active
       THEN [kind |-> NoneStr, principal |-> NoRow, detail |-> "Coach not found or inactive"]
       ELSE [kind |-> "coach", principal |-> coach, detail |-> "ok"]
  ELSE [kind |-> NoneStr, principal |-> NoRow, detail |-> "Invalid refresh token subject"]

\* the checks refresh_tokens makes on the row it loaded: "ok" or the 401 detail
RefreshTokenCheck(token_obj) ==
  IF token_obj = NoRow THEN "Invalid refresh token"
  ELSE IF token_obj.is_revoked THEN "Invalid refresh token"
  ELSE IF token_obj.expires_at < now THEN "Refresh token expired"
  ELSE "ok"

\* all validity checks of AuthService.refresh_tokens: "ok" or the 401 detail
RefreshCheck(token_obj) ==
  IF RefreshTokenCheck(token_obj) # "ok" THEN RefreshTokenCheck(token_obj)
  ELSE RefreshPrincipal(token_obj).detail

RefreshResponse(status, detail, actor, presented, issued) ==
  resp' = [op |-> "refresh", status |-> status, detail |-> detail, actor |-> actor,
           target |-> None, presented |-> presented, issued |-> issued]

\* refresh_tokens revoking the presented token before it looks at the principal
RefreshTokens_revoking_first(refresh_token) ==
  LET token_obj == RefreshTokenRepository_get_by_token(refresh_token)
      check == RefreshTokenCheck(token_obj)
      who == RefreshPrincipal(token_obj)
      revoked == RefreshTokenRepository_revoke(refresh_tokens, refresh_token)
      row == create_tokens_row(revoked, who.kind, who.principal) IN
  IF check # "ok"
  THEN /\ RefreshResponse(401, check, None, refresh_token, None)
       /\ UNCHANGED << school_db, db, now, rpc, apc, lineage >>
  ELSE IF who.kind = NoneStr
  THEN /\ refresh_tokens' = revoked
       /\ RefreshResponse(401, who.detail, None, refresh_token, None)
       /\ UNCHANGED << school_db, users, coaches, user_permissions, now, rpc, apc, lineage >>
  ELSE /\ Len(lineage) < MaxRefreshTokens
       /\ refresh_tokens' = revoked \cup {row}
       /\ lineage' = Append(lineage, refresh_token)
       /\ RefreshResponse(200, who.kind, who.principal.id, refresh_token, row.token)
       /\ UNCHANGED << school_db, users, coaches, user_permissions, now, rpc, apc >>

\* POST /auth/refresh served without interleaving: AuthService.refresh_tokens
RefreshTokens(refresh_token) ==
  LET token_obj == RefreshTokenRepository_get_by_token(refresh_token)
      check == RefreshCheck(token_obj) IN
  IF check # "ok"
  THEN /\ RefreshResponse(401, check, None, refresh_token, None)
       /\ UNCHANGED << school_db, db, now, rpc, apc, lineage >>
  ELSE LET who == RefreshPrincipal(token_obj)
           revoked == RefreshTokenRepository_revoke(refresh_tokens, refresh_token)
           row == create_tokens_row(revoked, who.kind, who.principal) IN
       /\ Len(lineage) < MaxRefreshTokens
       /\ refresh_tokens' = revoked \cup {row}
       /\ lineage' = Append(lineage, refresh_token)
       /\ RefreshResponse(200, who.kind, who.principal.id, refresh_token, row.token)
       /\ UNCHANGED << school_db, users, coaches, user_permissions, now, rpc, apc >>

\* POST /auth/logout: any resolved identity may revoke any refresh token string
Logout(token, refresh_token) ==
  LET identity == get_current_identity(token)
      success == RefreshTokenRepository_get_by_token(refresh_token) # NoRow IN
  IF identity.status # 200
  THEN /\ Respond("logout", identity.status, identity.detail, None, None)
       /\ UNCHANGED << school_db, db, now, rpc, apc, lineage >>
  ELSE /\ refresh_tokens' = RefreshTokenRepository_revoke(refresh_tokens, refresh_token)
       /\ resp' = [op |-> "logout", status |-> 200,
                   detail |-> IF success THEN "Successfully logged out"
                              ELSE "Token already revoked or invalid",
                   actor |-> None, target |-> None,
                   presented |-> None, issued |-> None]
       /\ UNCHANGED << school_db, users, coaches, user_permissions, now, rpc, apc, lineage >>

\* the clock advances by a day
Tick(limit) ==
  /\ now < limit
  /\ now' = now + 1
  /\ UNCHANGED << school_db, db, resp, rpc, apc, lineage >>

\* the clock advances to the next instant that matters to a stored refresh
\* token: the last instant at which it is still valid (expires_at itself) or
\* the first at which "expires_at < utcnow()" holds
AdvanceToExpiry ==
  /\ \E r \in refresh_tokens : \E t \in {r.expires_at, r.expires_at + 1} :
        /\ now < t
        /\ t <= MaxNow
        /\ now' = t
  /\ UNCHANGED << school_db, db, resp, rpc, apc, lineage >>

\* ------------------------------------------------------------------------
\* Specification of user and coach management, from the bootstrap state
\* ------------------------------------------------------------------------
Next ==
  \/ \E token \in AccessTokens, username \in Usernames, password \in Passwords, role \in UserRole :
       CreateUserReq(token, username, password, role)
  \/ \E token \in AccessTokens, user_id \in UserIds, username \in Usernames :
       UpdateUserReq(token, user_id, username, NoneStr, NoneStr)
  \/ \E token \in AccessTokens, user_id \in UserIds : DeleteUserReq(token, user_id)
  \/ \E token \in AccessTokens, username \in Usernames, password \in Passwords :
       CreateCoachReq(token, username, password)
  \/ \E token \in AccessTokens, coach_id \in CoachIds : DeleteCoachReq(token, coach_id)
  \/ \E token \in AccessTokens, user_id \in UserIds, permission \in AssignablePermissions :
       AssignPermissionReq(token, user_id, permission)

Spec == Init /\ [][Next]_vars

\* ------------------------------------------------------------------------
\* Specification of authentication: logins, refresh, logout, the clock,
\* deactivation and deletion of principals, and identity resolution.
\* It starts from the state right after the bootstrap admin created the coach
\* "carter" (CoachService.create_coach adds the synced User row).
\* ------------------------------------------------------------------------
InitAuth ==
  /\ users = {InitialAdmin,
              [id |-> 2, username |-> UsernamePool[2],
               password |-> PasswordHandler_hash(INITIAL_ADMIN_PASSWORD),
               role |-> "coach", is_active |-> TRUE]}
  /\ coaches = {[id |-> 1, username |-> UsernamePool[2],
                 password |-> PasswordHandler_hash(INITIAL_ADMIN_PASSWORD),
                 is_active |-> TRUE]}
  /\ user_permissions = {}
  /\ refresh_tokens = {}
  /\ now = 0
  /\ resp = NoResponse
  /\ rpc = << >>
  /\ apc = << >>
  /\ lineage = << >>
  /\ EmptySchoolTables

\* Tokens a client may present to the resolver: issued up to two days ago to
\* a user or coach id, with or without the id claim, with a foreign
\* subject_type, or signed with another key
IssueTimes == {t \in (now - 2)..now : t >= 0}

ProbeClaims ==
  {[sub |-> UsernamePool[1], subject_type |-> "user", user_id |-> i, role |-> "user"] : i \in 1..2}
  \cup {[sub |-> UsernamePool[2], subject_type |-> "coach", coach_id |-> i] : i \in 1..2}
  \cup {[sub |-> UsernamePool[2], subject_type |-> "coach", user_id |-> i] : i \in 1..2}
  \cup {[sub |-> UsernamePool[1], subject_type |-> "user", coach_id |-> 1],
        [sub |-> UsernamePool[1], subject_type |-> "admin", user_id |-> 1],
        [sub |-> UsernamePool[1], user_id |-> 1]}

ProbeTokens ==
  {create_access_token(c, t) : c \in ProbeClaims, t \in IssueTimes}
  \cup {[create_access_token(c, now) EXCEPT !.sig = "another-key"] : c \in ProbeClaims}

AdminTokens == {create_access_token(
                  build_access_token_payload("user", [id |-> 1, username |-> UsernamePool[1],
                                                      role |-> "admin"]), now)}

\* a request behind Depends(get_current_identity), such as GET /auth/me
GetCurrentIdentityReq(token) ==
  LET identity == get_current_identity(token) IN
  /\ Respond("get_current_identity", identity.status, identity.detail,
             identity.user.id, identity.coach.id)
  /\ UNCHANGED << school_db, db, now, rpc, apc, lineage >>

\* a request behind Depends(get_current_user)
GetCurrentUserReq(token) ==
  LET auth == get_current_user(token) IN
  /\ Respond("get_current_user", auth.status, auth.detail,
             auth.user.id, get_current_identity(token).coach.id)
  /\ UNCHANGED << school_db, db, now, rpc, apc, lineage >>

LoginUsernames == {UsernamePool[1], UsernamePool[2]}
LoginPasswords == Passwords
RefreshTokenStrings == 1..(MaxRefreshTokens + 1)

\* the token presented to POST /auth/logout: the coach's
LogoutTokens ==
  {create_access_token(
     build_access_token_payload("coach", [id |-> 1, username |-> UsernamePool[2]]), now)}

NextAuth ==
  \/ \E username \in LoginUsernames, password \in LoginPasswords : Login(username, password)
  \/ \E refresh_token \in RefreshTokenStrings : RefreshTokens(refresh_token)
  \/ \E token \in LogoutTokens, refresh_token \in RefreshTokenStrings : Logout(token, refresh_token)
  \/ AdvanceToExpiry
  \/ \E token \in AdminTokens, is_active \in {"true", "false"} :
       UpdateUserReq(token, 2, NoneStr, NoneStr, is_active)
  \/ \E token \in AdminTokens : DeleteUserReq(token, 2)

SpecAuth == InitAuth /\ [][NextAuth]_vars

\* ------------------------------------------------------------------------
\* Specification of identity resolution: the resolver is probed with every
\* kind of token while principals are deactivated, reactivated and deleted
\* and the clock runs
\* ------------------------------------------------------------------------
NextIdentity ==
  \/ \E token \in ProbeTokens : GetCurrentIdentityReq(token)
  \/ \E token \in ProbeTokens : GetCurrentUserReq(token)
  \/ Tick(MaxNow)
  \/ \E token \in AdminTokens, user_id \in 1..2, is_active \in {"true", "false"} :
       UpdateUserReq(token, user_id, NoneStr, NoneStr, is_active)
  \/ \E token \in AdminTokens, user_id \in 1..2 : DeleteUserReq(token, user_id)
  \/ \E token \in AdminTokens, coach_id \in 1..1 : DeleteCoachReq(token, coach_id)

SpecIdentity == InitAuth /\ [][NextIdentity]_vars

\* ------------------------------------------------------------------------
\* Specification of concurrent refreshes: AuthService.refresh_tokens served
\* by concurrent workers, each of its queries and commits one step.  A worker
\* may die between two steps.  It starts right after "carter" logged in.
\* ------------------------------------------------------------------------
RefreshCalls == 1..2

IdleCall == [pc |-> "idle", refresh_token |-> None, user_id |-> None, coach_id |-> None,
             kind |-> NoneStr, principal_id |-> None, status |-> 0, issued |-> None]

InitRotate ==
  /\ users = {InitialAdmin,
              [id |-> 2, username |-> UsernamePool[2],
               password |-> PasswordHandler_hash(INITIAL_ADMIN_PASSWORD),
               role |-> "coach", is_active |-> TRUE]}
  /\ coaches = {[id |-> 1, username |-> UsernamePool[2],
                 password |-> PasswordHandler_hash(INITIAL_ADMIN_PASSWORD),
                 is_active |-> TRUE]}
  /\ user_permissions = {}
  /\ refresh_tokens = {[id |-> 1, token |-> 1, user_id |-> 2, coach_id |-> None,
                        expires_at |-> REFRESH_TOKEN_EXPIRE_DAYS, is_revoked |-> FALSE]}
  /\ now = 0
  /\ resp = [NoResponse EXCEPT !.op = "login", !.status = 200, !.detail = "user",
                               !.actor = 2, !.issued = 1]
  /\ rpc = [p \in RefreshCalls |-> IdleCall]
  /\ apc = << >>
  /\ lineage = << None >>
  /\ EmptySchoolTables

\* auth_service.py 127-140: get_by_token and the checks on the loaded row
RefreshTokens_get_by_token(p, refresh_token) ==
  LET token_obj == RefreshTokenRepository_get_by_token(refresh_token)
      check == RefreshTokenCheck(token_obj) IN
  /\ rpc[p].pc = "idle"
  /\ IF check # "ok"
     THEN /\ rpc' = [rpc EXCEPT ![p] = [IdleCall EXCEPT !.pc = "done", !.status = 401,
                                                         !.refresh_token = refresh_token]]
          /\ RefreshResponse(401, check, None, refresh_token, None)
     ELSE /\ rpc' = [rpc EXCEPT ![p] = [IdleCall EXCEPT !.pc = "principal",
                                                         !.refresh_token = refresh_token,
                                                         !.user_id = token_obj.user_id,
                                                         !.coach_id = token_obj.coach_id]]
          /\ UNCHANGED resp
  /\ UNCHANGED << school_db, db, now, apc, lineage >>

\* auth_service.py 145-167: the principal lookup
RefreshTokens_principal(p) ==
  LET who == RefreshPrincipal(rpc[p]) IN
  /\ rpc[p].pc = "principal"
  /\ IF who.kind = NoneStr
     THEN /\ rpc' = [rpc EXCEPT ![p].pc = "done", ![p].status = 401]
          /\ RefreshResponse(401, who.detail, None, rpc[p].refresh_token, None)
     ELSE /\ rpc' = [rpc EXCEPT ![p].pc = "revoke", ![p].kind = who.kind,
                                ![p].principal_id = who.principal.id]
          /\ UNCHANGED resp
  /\ UNCHANGED << school_db, db, now, apc, lineage >>

\* auth_service.py 169: RefreshTokenRepository.revoke, committed
RefreshTokens_revoke(p) ==
  /\ rpc[p].pc = "revoke"
  /\ refresh_tokens' = RefreshTokenRepository_revoke(refresh_tokens, rpc[p].refresh_token)
  /\ rpc' = [rpc EXCEPT ![p].pc = "create"]
  /\ UNCHANGED << school_db, users, coaches, user_permissions, now, resp, apc, lineage >>

\* auth_service.py 171-179: create_tokens, committed, and the response
RefreshTokens_create(p) ==
  LET row == create_tokens_row(refresh_tokens, rpc[p].kind, [id |-> rpc[p].principal_id]) IN
  /\ rpc[p].pc = "create"
  /\ Len(lineage) < MaxRefreshTokens
  /\ refresh_tokens' = refresh_tokens \cup {row}
  /\ lineage' = Append(lineage, rpc[p].refresh_token)
  /\ rpc' = [rpc EXCEPT ![p].pc = "done", ![p].status = 200, ![p].issued = row.token]
  /\ RefreshResponse(200, rpc[p].kind, rpc[p].principal_id, rpc[p].refresh_token, row.token)
  /\ UNCHANGED << school_db, users, coaches, user_permissions, now, apc >>

\* the worker dies, or its connection fails, after the row was loaded
RefreshTokens_crash(p) ==
  /\ rpc[p].pc \in {"principal", "revoke", "create"}
  /\ rpc' = [rpc EXCEPT ![p].pc = "crashed"]
  /\ UNCHANGED << school_db, db, now, resp, apc, lineage >>

\* the worker (or its replacement) is ready for the next request
RefreshTokens_return(p) ==
  /\ rpc[p].pc \in {"done", "crashed"}
  /\ rpc' = [rpc EXCEPT ![p] = IdleCall]
  /\ UNCHANGED << school_db, db, now, resp, apc, lineage >>

NextRotate ==
  \/ \E p \in RefreshCalls, refresh_token \in RefreshTokenStrings :
       RefreshTokens_get_by_token(p, refresh_token)
  \/ \E p \in RefreshCalls : RefreshTokens_principal(p)
  \/ \E p \in RefreshCalls : RefreshTokens_revoke(p)
  \/ \E p \in RefreshCalls : RefreshTokens_create(p)
  \/ \E p \in RefreshCalls : RefreshTokens_crash(p)
  \/ \E p \in RefreshCalls : RefreshTokens_return(p)
  \/ /\ AdvanceToExpiry
     /\ UNCHANGED rpc
  \/ /\ \E token \in AdminTokens, is_active \in {"true", "false"} :
          UpdateUserReq(token, 2, NoneStr, NoneStr, is_active)
     /\ UNCHANGED rpc

SpecRotate == InitRotate /\ [][NextRotate]_vars

\* ------------------------------------------------------------------------
\* Specification of permission management: assignments and revocations by
\* name (through the endpoints) and by id (the service functions), checks
\* behind require_permission, and the clock.  It starts from the state right
\* after the bootstrap admin created the coach "carter".
\* ------------------------------------------------------------------------
\* permissions that are assigned, revoked and checked: one outside and one
\* inside the base set of the target's role
CheckedPermissions == {"create_coach", "view_own_profile"}
CheckedPermissionIds == {PermissionRepository_get_by_name(n).id : n \in CheckedPermissions}

\* access tokens of user 2 issued up to two days ago, with every role claim a
\* token can carry
PermissionProbeTokens ==
  {create_access_token(
     build_access_token_payload("user", [id |-> i, username |-> UsernamePool[i], role |-> r]), t)
   : i \in {2}, r \in UserRole, t \in IssueTimes}

\* a request behind Depends(require_permission(permission))
RequirePermissionReq(token, permission) ==
  LET auth == require_permission(token, permission) IN
  /\ resp' = [op |-> "require_permission", status |-> auth.status, detail |-> auth.detail,
              actor |-> PayloadGetInt(token.claims, "user_id"),
              target |-> PermissionRepository_get_by_name(permission).id,
              presented |-> token.claims.iat, issued |-> None]
  /\ UNCHANGED << school_db, db, now, rpc, apc, lineage >>

ByIdUserIds == {None, 0, 2}
ByIdCoachIds == {None, 1}

NextPerm ==
  \/ \E token \in AdminTokens, user_id \in 1..2, permission \in CheckedPermissions :
       AssignPermissionReq(token, user_id, permission)
  \/ \E token \in AdminTokens, user_id \in 1..2, permission \in CheckedPermissions :
       RevokePermissionReq(token, user_id, permission)
  \/ \E permission_id \in CheckedPermissionIds, user_id \in ByIdUserIds, coach_id \in ByIdCoachIds :
       PermissionService_assign_permission_by_id(permission_id, InitialAdmin, user_id, coach_id)
  \/ \E permission_id \in CheckedPermissionIds, user_id \in ByIdUserIds, coach_id \in ByIdCoachIds :
       PermissionService_revoke_permission_by_id(permission_id, InitialAdmin, user_id, coach_id)
  \/ \E token \in PermissionProbeTokens, permission \in CheckedPermissions :
       RequirePermissionReq(token, permission)
  \/ Tick(MaxCheckNow)

SpecPerm == InitAuth /\ [][NextPerm]_vars

\* ------------------------------------------------------------------------
\* Specification of concurrent assignments: PermissionService.assign_permission
\* and assign_permission_by_id served by concurrent workers, the has_permission
\* query one step and the INSERT with its commit another.
\* ------------------------------------------------------------------------
AssignCalls == 1..2

IdleAssign == [pc |-> "idle", user_id |-> None, coach_id |-> None, permission_id |-> None,
               status |-> 0]

InitAssignRace ==
  /\ users = {InitialAdmin,
              [id |-> 2, username |-> UsernamePool[2],
               password |-> PasswordHandler_hash(INITIAL_ADMIN_PASSWORD),
               role |-> "coach", is_active |-> TRUE]}
  /\ coaches = {[id |-> 1, username |-> UsernamePool[2],
                 password |-> PasswordHandler_hash(INITIAL_ADMIN_PASSWORD),
                 is_active |-> TRUE]}
  /\ user_permissions = {}
  /\ refresh_tokens = {}
  /\ now = 0
  /\ resp = NoResponse
  /\ rpc = << >>
  /\ apc = [p \in AssignCalls |-> IdleAssign]
  /\ lineage = << >>
  /\ EmptySchoolTables

\* the "already assigned" check of assign_permission (coach_id None) and of
\* assign_permission_by_id
Assign_has_permission(p, permission_id, user_id, coach_id) ==
  /\ apc[p].pc = "idle"
  /\ (user_id = None) # (coach_id = None)
  /\ IF UserPermissionRepository_has_permission(permission_id, user_id, coach_id)
     THEN /\ apc' = [apc EXCEPT ![p] = [pc |-> "done", user_id |-> user_id, coach_id |-> coach_id,
                                        permission_id |-> permission_id, status |-> 400]]
          /\ Respond(IF coach_id = None THEN "assign" ELSE "assign_by_id", 400,
                     IF coach_id = None THEN "Permission already assigned to user"
                     ELSE "Permission already assigned",
                     InitialAdmin.id, IF user_id # None THEN user_id ELSE coach_id)
     ELSE /\ apc' = [apc EXCEPT ![p] = [pc |-> "insert", user_id |-> user_id,
                                        coach_id |-> coach_id,
                                        permission_id |-> permission_id, status |-> 0]]
          /\ UNCHANGED resp
  /\ UNCHANGED << school_db, db, now, rpc, lineage >>

\* UserPermissionRepository.assign_permission: db.add and db.commit, which the
\* database refuses with IntegrityError when a constraint is violated
Assign_insert(p) ==
  LET row == NewAssignment(user_permissions, apc[p].permission_id,
                           apc[p].user_id, apc[p].coach_id)
      op == IF apc[p].coach_id = None THEN "assign" ELSE "assign_by_id"
      target == IF apc[p].user_id # None THEN apc[p].user_id ELSE apc[p].coach_id IN
  /\ apc[p].pc = "insert"
  /\ IF IntegrityError(user_permissions, row)
     THEN /\ apc' = [apc EXCEPT ![p].pc = "done", ![p].status = 500]
          /\ Respond(op, 500, "IntegrityError", InitialAdmin.id, target)
          /\ UNCHANGED user_permissions
     ELSE /\ apc' = [apc EXCEPT ![p].pc = "done", ![p].status = 200]
          /\ user_permissions' = user_permissions \cup {row}
          /\ Respond(op, 200, PermissionRepository_get_by_id(apc[p].permission_id).permission_name,
                     InitialAdmin.id, target)
  /\ UNCHANGED << school_db, users, coaches, refresh_tokens, now, rpc, lineage >>

\* the worker is ready for the next request
Assign_return(p) ==
  /\ apc[p].pc = "done"
  /\ apc' = [apc EXCEPT ![p] = IdleAssign]
  /\ UNCHANGED << school_db, db, now, resp, rpc, lineage >>

NextAssignRace ==
  \/ \E p \in AssignCalls, permission_id \in CheckedPermissionIds :
       \E target \in {<< 2, None >>, << None, 1 >>} :
          Assign_has_permission(p, permission_id, target[1], target[2])
  \/ \E p \in AssignCalls : Assign_insert(p)
  \/ \E p \in AssignCalls : Assign_return(p)

SpecAssignRace == InitAssignRace /\ [][NextAssignRace]_vars

\* ------------------------------------------------------------------------
\* Specification of the permission gates: users are created and deleted and
\* permissions are assigned by the admin, by the coach's user and by a user
\* the admin creates, as the permissions they hold allow.  It starts from the
\* state right after the bootstrap admin created the coach "carter".
\* ------------------------------------------------------------------------
\* the permissions that are assigned: one behind each gate
GatePermissions == {"delete_user", "assign_permissions"}

\* the username of the user that is created
GateUsernames == {UsernamePool[3]}

\* GET /users/{user_id}
GetUserReq(token, user_id) ==
  LET auth == get_current_user(token) IN
  /\ IF auth.status # 200
     THEN Respond("get_user", auth.status, auth.detail, None, user_id)
     ELSE IF ~can_access_user(user_id, auth.user)
     THEN Respond("get_user", 403, "You can only view your own profile", auth.user.id, user_id)
     ELSE IF UserRepository_get_by_id(user_id) = NoRow
     THEN Respond("get_user", 404, "User not found", auth.user.id, user_id)
     ELSE Respond("get_user", 200, "ok", auth.user.id, user_id)
  /\ UNCHANGED << school_db, db, now, rpc, apc, lineage >>

NextGate ==
  \/ \E token \in UserAccessTokens, username \in GateUsernames, password \in Passwords,
        role \in UserRole :
       CreateUserReq(token, username, password, role)
  \/ \E token \in UserAccessTokens, user_id \in UserIds : DeleteUserReq(token, user_id)
  \/ \E token \in UserAccessTokens, coach_id \in CoachIds : DeleteCoachReq(token, coach_id)
  \/ \E token \in UserAccessTokens, user_id \in UserIds, permission \in GatePermissions :
       AssignPermissionReq(token, user_id, permission)

SpecGate == InitAuth /\ [][NextGate]_vars

\* ------------------------------------------------------------------------
\* Specification of sessions: principals log in, rotate and log out while the
\* access tokens issued to them over the last two days are presented to the
\* resolver, the admin deactivates, reactivates and deletes the coach's user
\* and the clock runs.  Same initial state.
\* ------------------------------------------------------------------------
\* the access token issued at clock value t to a stored principal
AccessTokenOf(principal_type, principal, t) ==
  create_access_token(build_access_token_payload(principal_type, principal), t)

\* the principals that log in: the user and the coach named "carter"
SessionUsernames == {UsernamePool[2]}

SessionTokens ==
  {AccessTokenOf("user", u, t) :
     u \in {x \in users : x.username \in SessionUsernames}, t \in IssueTimes}
  \cup {AccessTokenOf("coach", c, t) :
          c \in {x \in coaches : x.username \in SessionUsernames}, t \in IssueTimes}

\* a request behind Depends(get_current_identity)
ResolveIdentityReq(token) ==
  LET identity == get_current_identity(token) IN
  /\ resp' = [op |-> "get_current_identity", status |-> identity.status,
              detail |-> identity.detail,
              actor |-> identity.user.id, target |-> identity.coach.id,
              presented |-> token.claims.iat, issued |-> None]
  /\ UNCHANGED << school_db, db, now, rpc, apc, lineage >>

NextSession ==
  \/ \E username \in SessionUsernames, password \in LoginPasswords : Login(username, password)
  \/ \E refresh_token \in RefreshTokenStrings : RefreshTokens(refresh_token)
  \/ \E token \in LogoutTokens, refresh_token \in RefreshTokenStrings : Logout(token, refresh_token)
  \/ \E token \in SessionTokens : ResolveIdentityReq(token)
  \/ \E token \in AdminTokens, is_active \in {"true", "false"} :
       UpdateUserReq(token, 2, NoneStr, NoneStr, is_active)
  \/ \E token \in AdminTokens : DeleteUserReq(token, 2)
  \/ Tick(MaxCheckNow)

SpecSession == InitAuth /\ [][NextSession]_vars

\* ------------------------------------------------------------------------
\* Specification of user creation: every user asks to create users of every
\* role while the admin assigns create_coach and deletes users.  Same
\* initial state.
\* ------------------------------------------------------------------------
CreatePermissions == {"create_coach"}
CreateUsernames == {UsernamePool[3], UsernamePool[4]}

NextCreate ==
  \/ \E token \in UserAccessTokens, username \in CreateUsernames,
        password \in Passwords, role \in UserRole :
       CreateUserReq(token, username, password, role)
  \/ \E token \in AdminTokens, user_id \in 2..MaxUserId, permission \in CreatePermissions :
       AssignPermissionReq(token, user_id, permission)
  \/ \E token \in AdminTokens, user_id \in 2..MaxUserId : DeleteUserReq(token, user_id)

SpecCreate == InitAuth /\ [][NextCreate]_vars

\* ------------------------------------------------------------------------
\* Specification of profile access: profiles are viewed and edited by the
\* admin and by the coach's user while the admin assigns and revokes the
\* view-all and edit-all permissions.  Same initial state.
\* ------------------------------------------------------------------------
AccessPermissions == {"view_all_users", "edit_all_users"}

NextAccess ==
  \/ \E token \in UserAccessTokens, user_id \in UserIds : GetUserReq(token, user_id)
  \/ \E token \in UserAccessTokens, user_id \in UserIds, is_active \in {NoneStr, "false", "true"} :
       UpdateUserReq(token, user_id, NoneStr, NoneStr, is_active)
  \/ \E token \in AdminTokens, permission \in AccessPermissions :
       AssignPermissionReq(token, 2, permission)
  \/ \E token \in AdminTokens, permission \in AccessPermissions :
       RevokePermissionReq(token, 2, permission)

SpecAccess == InitAuth /\ [][NextAccess]_vars

\* ------------------------------------------------------------------------
\* Claims about user and coach management (checked under Spec)
\* ------------------------------------------------------------------------
\* C6: no request issued by an authenticated User X deletes X's own User row:
\* the user a request was authenticated as still has a row once the request
\* has been served.
C6_NoSelfDeletion ==
  [][resp'.actor # None => \E u \in users' : u.id = resp'.actor]_vars

\* C7: a delete request whose deleter is its own target always ends in the
\* self-protection rejection, whatever delete permissions the deleter holds.
C7_SelfDeleteRejectedBeforePermissionCheck ==
  (resp.op = "delete_user" /\ resp.actor # None /\ resp.actor = resp.target)
    => (resp.status = 400 /\ resp.detail = "Cannot delete your own account")

\* ------------------------------------------------------------------------
\* Claims about refresh rotation (checked under SpecAuth)
\* ------------------------------------------------------------------------
\* the refresh tokens that a successful refresh was issued in exchange for
Rotated == {lineage[t] : t \in DOMAIN lineage} \ {None}

\* C1: a refresh presenting a non-revoked, unexpired token T of an existing
\* active principal succeeds and returns a new token T' different from T,
\* leaving T revoked and T' accepted by the validity checks of refresh_tokens;
\* a refresh presenting any other token fails with 401 and writes nothing; and
\* a token that has been rotated is never again accepted by a refresh.
C1_RefreshRotation ==
  [][ /\ \A T \in RefreshTokenStrings :
           (resp'.op = "refresh" /\ resp'.presented = T /\ resp' # resp) =>
             IF RefreshCheck(RefreshTokenRepository_get_by_token(T)) = "ok"
             THEN /\ resp'.status = 200
                  /\ resp'.issued # T
                  /\ \A r \in refresh_tokens : r.token # resp'.issued
                  /\ \E Tnew \in RefreshTokenStrings :
                       /\ Tnew = resp'.issued
                       /\ RefreshCheck(RefreshTokenRepository_get_by_token(Tnew))' = "ok"
                       /\ RefreshTokenRepository_get_by_token(T)'.is_revoked
             ELSE /\ resp'.status = 401
                  /\ refresh_tokens' = refresh_tokens
      /\ \A T \in Rotated' :
           RefreshCheck(RefreshTokenRepository_get_by_token(T))' # "ok"
    ]_vars

\* C1 witness: the successor T' of a rotated token T has itself been presented
\* and refreshed successfully, while T is refused
C1_Witness ==
  /\ resp.op = "refresh"
  /\ resp.status = 200
  /\ resp.presented \in DOMAIN lineage
  /\ lineage[resp.presented] # None
  /\ RefreshCheck(RefreshTokenRepository_get_by_token(lineage[resp.presented])) = "Invalid refresh token"

\* ------------------------------------------------------------------------
\* Claims about identity resolution (checked under SpecIdentity)
\* ------------------------------------------------------------------------
Decodable(token) == decode_token(token, now) # JWTError
SubjectType(token) == PayloadGetStr(token.claims, "subject_type")

\* C8: a decodable access token whose subject_type is "coach" never gets a
\* User out of get_current_user: the request is rejected, and with 403
\* "User credentials required" whenever get_current_identity resolves the
\* token, also when a User row has the coach's id or username.
C8_CrossPrincipalIsolation ==
  \A token \in ProbeTokens :
    (Decodable(token) /\ SubjectType(token) = "coach") =>
      /\ get_current_user(token).user = NoRow
      /\ get_current_user(token).status \in {401, 403}
      /\ get_current_identity(token).status = 200 =>
           /\ get_current_user(token).status = 403
           /\ get_current_user(token).detail = "User credentials required"

\* C8 witness: a coach token was resolved and refused by get_current_user
\* while a User row with the coach's id and one with its username exist
C8_Witness ==
  /\ resp.op = "get_current_user"
  /\ resp.status = 403
  /\ resp.detail = "User credentials required"
  /\ resp.target # None
  /\ \E u \in users : u.id = resp.target
  /\ \E u \in users : u.username = CoachRepository_get_by_id(resp.target).username

\* C9: get_current_identity answers 401 for a token that does not decode or
\* has a subject_type other than user/coach; for subject_type s it answers
\* 401 when the id claim of s is absent or names no row of s's table, 403
\* when the row is inactive, and otherwise returns exactly that row of kind s.
C9_IdentityResolutionOutcomes ==
  \A token \in ProbeTokens :
    LET identity == get_current_identity(token)
        s == SubjectType(token)
        key == IF s = "user" THEN "user_id" ELSE "coach_id"
        table == IF s = "user" THEN users ELSE coaches
        id == PayloadGetInt(token.claims, key)
        rows == {p \in table : p.id = id}
    IN IF ~Decodable(token) \/ s \notin {"user", "coach"} THEN identity.status = 401
       ELSE IF id = None \/ rows = {} THEN identity.status = 401
       ELSE IF \E p \in rows : ~p.is_active THEN identity.status = 403
       ELSE /\ identity.status = 200
            /\ identity.subject_type = s
            /\ IF s = "user"
               THEN identity.user \in rows /\ identity.coach = NoRow
               ELSE identity.coach \in rows /\ identity.user = NoRow

\* C9 witness: a user was deactivated and the next request with that user's
\* still-unexpired token is refused with 403
C9_Witness ==
  /\ resp.op = "get_current_identity"
  /\ resp.status = 403
  /\ resp.detail = "Inactive user account"
  /\ \E u \in users : ~u.is_active

\* ------------------------------------------------------------------------
\* Claims about concurrent refreshes (checked under SpecRotate)
\* ------------------------------------------------------------------------
\* the stored refresh tokens issued in exchange for T that a refresh would
\* still find non-revoked
UsableSuccessors(T) ==
  {t \in DOMAIN lineage :
     lineage[t] = T /\ \E r \in refresh_tokens : r.token = t /\ ~r.is_revoked}

\* C2: of the concurrent refresh_tokens calls presenting the same token T at
\* most one succeeds, and T never has two non-revoked successors.
C2_SingleUseUnderConcurrency ==
  \A T \in RefreshTokenStrings :
    /\ Cardinality({p \in RefreshCalls : /\ rpc[p].pc = "done"
                                         /\ rpc[p].status = 200
                                         /\ rpc[p].refresh_token = T}) <= 1
    /\ Cardinality(UsableSuccessors(T)) <= 1

\* C3: in every state, a token presented to a refresh and its successor are
\* never both non-revoked, and a token revoked by a refresh has a persisted
\* successor (SpecRotate has no other way to revoke a token).
C3_RotationIsAtomic ==
  /\ \A t \in DOMAIN lineage :
       lineage[t] # None =>
         ~(/\ \E r \in refresh_tokens : r.token = lineage[t] /\ ~r.is_revoked
           /\ \E r \in refresh_tokens : r.token = t /\ ~r.is_revoked)
  /\ \A r \in refresh_tokens :
       r.is_revoked => \E t \in DOMAIN lineage : lineage[t] = r.token

\* ------------------------------------------------------------------------
\* Claims about permission assignment (checked under SpecAssignRace, SpecPerm)
\* ------------------------------------------------------------------------
\* the (target, permission) pair an assign call was made for
SameAssignment(c, d) ==
  /\ c.user_id = d.user_id
  /\ c.coach_id = d.coach_id
  /\ c.permission_id = d.permission_id

\* C4: in every state there is at most one row per (user_id, permission_id)
\* and at most one per (coach_id, permission_id); and once two concurrent
\* assign calls for the same target and permission have both completed, they
\* have not both succeeded and exactly one row for the pair exists.
C4_ConcurrentAssignmentUniqueness ==
  /\ \A a, b \in user_permissions :
       (a # b /\ a.permission_id = b.permission_id) =>
         /\ a.user_id # None => a.user_id # b.user_id
         /\ a.coach_id # None => a.coach_id # b.coach_id
  /\ \A p, q \in AssignCalls :
       (p # q /\ apc[p].pc = "done" /\ apc[q].pc = "done" /\ SameAssignment(apc[p], apc[q])) =>
         /\ ~(apc[p].status = 200 /\ apc[q].status = 200)
         /\ Cardinality({a \in user_permissions : SameAssignment(a, apc[p])}) = 1

\* C4 witness: both calls passed the has_permission check before either
\* inserted; one inserted and the database refused the other
C4_Witness ==
  \E p, q \in AssignCalls :
    /\ apc[p].pc = "done" /\ apc[q].pc = "done"
    /\ SameAssignment(apc[p], apc[q])
    /\ apc[p].status = 200
    /\ apc[q].status = 500

\* P is explicitly assigned to the target
ExplicitlyAssigned(permission_id, user_id, coach_id) ==
  \E a \in user_permissions :
     a.permission_id = permission_id /\ a.user_id = user_id /\ a.coach_id = coach_id

\* C5: an assign_permission of P to user U, or an assign_permission_by_id of
\* P to a user or coach, made while P is explicitly assigned to that target
\* answers 400 "Permission already assigned" and leaves the assignment rows
\* unchanged.
C5_SequentialDoubleAssignment ==
  [][ /\ \A user_id \in 1..2, permission \in CheckedPermissions :
           ( /\ resp'.op = "assign"
             /\ ExplicitlyAssigned(PermissionRepository_get_by_name(permission).id, user_id, None)
             /\ PermissionService_assign_permission(user_id, permission, InitialAdmin) )
           => /\ resp'.status = 400
              /\ resp'.detail = "Permission already assigned to user"
              /\ user_permissions' = user_permissions
      /\ \A permission_id \in CheckedPermissionIds, user_id \in ByIdUserIds, coach_id \in ByIdCoachIds :
           ( /\ resp'.op = "assign_by_id"
             /\ (ZeroAsNone(user_id) = None) # (coach_id = None)
             /\ ExplicitlyAssigned(permission_id, ZeroAsNone(user_id), coach_id)
             /\ PermissionService_assign_permission_by_id(permission_id, InitialAdmin, user_id, coach_id) )
           => /\ resp'.status = 400
              /\ resp'.detail = "Permission already assigned"
              /\ user_permissions' = user_permissions
    ]_vars

\* C5 witness: a second assign of a permission to the user that holds its row
\* was answered 400
C5_Witness ==
  /\ resp.op = "assign"
  /\ resp.status = 400
  /\ resp.detail = "Permission already assigned to user"
  /\ \E a \in user_permissions : a.user_id = resp.target

\* C10: a require_permission decision for an authenticated user depends on
\* the stored role and the stored assignment rows only, whatever role the
\* token claims and whenever the token was issued; so in the state an assign
\* of P to U leaves, a check with any token of U grants P, and in the state a
\* revoke of P from U leaves, it grants P only if P is in the base set of U's
\* stored role.
C10_AuthorizationReadsCurrentState ==
  \A token \in PermissionProbeTokens, permission \in CheckedPermissions :
    LET auth == get_current_user(token)
        granted == require_permission(token, permission).status = 200 IN
    auth.status = 200 =>
      /\ granted <=>
           \/ permission \in ROLE_BASE_PERMISSIONS[auth.user.role]
           \/ ExplicitlyAssigned(PermissionRepository_get_by_name(permission).id,
                                 auth.user.id, None)
      /\ ( /\ resp.op \in {"assign", "revoke"}
           /\ resp.status = 200
           /\ resp.detail = permission
           /\ resp.target = auth.user.id ) =>
           ( granted <=> \/ resp.op = "assign"
                         \/ permission \in ROLE_BASE_PERMISSIONS[auth.user.role] )

\* C10 witness: a token issued before the assignment was made is checked for
\* a permission outside the holder's base set and is granted it
C10_Witness ==
  /\ resp.op = "require_permission"
  /\ resp.status = 200
  /\ \E a \in user_permissions :
       /\ a.user_id = resp.actor
       /\ a.permission_id = resp.target
       /\ resp.presented < a.assigned_at
       /\ PermissionRepository_get_by_id(a.permission_id).permission_name
            \notin ROLE_BASE_PERMISSIONS[UserRepository_get_by_id(resp.actor).role]

\* ------------------------------------------------------------------------
\* Claims about the permission engine (checked under SpecPerm)
\* ------------------------------------------------------------------------
\* the names of the assignment rows whose user_id is the given id
AssignedNamesOfUser(user_id) ==
  {PermissionRepository_get_by_id(a.permission_id).permission_name :
     a \in {b \in user_permissions : b.user_id = user_id}}

\* C11: for every User u, in every state of the assignment table, the list
\* get_user_permissions(u) returns holds exactly the names of
\* ROLE_BASE_PERMISSIONS[u.role] and of the assignment rows whose user_id is
\* u.id, each once, in ascending order of name.
C11_PermissionUnionCorrectness ==
  \A u \in users :
    LET listed == get_user_permissions_list(u) IN
    /\ {listed[i] : i \in DOMAIN listed} = ROLE_BASE_PERMISSIONS[u.role] \cup AssignedNamesOfUser(u.id)
    /\ \A i, j \in DOMAIN listed : i < j => ValueRank(listed[i]) < ValueRank(listed[j])

\* C11 witness: a user holds a row for a permission of its base set and a row
\* for one outside it, and the list has one entry more than the base set
C11_Witness ==
  \E u \in users :
    /\ AssignedNamesOfUser(u.id) \cap ROLE_BASE_PERMISSIONS[u.role] # {}
    /\ AssignedNamesOfUser(u.id) \ ROLE_BASE_PERMISSIONS[u.role] # {}
    /\ Len(get_user_permissions_list(u)) = Cardinality(ROLE_BASE_PERMISSIONS[u.role]) + 1

\* the names of the assignment rows whose coach_id is the given id
AssignedNamesOfCoach(coach_id) ==
  {PermissionRepository_get_by_id(a.permission_id).permission_name :
     a \in {b \in user_permissions : b.coach_id = coach_id}}

\* C12: for every Coach c the permission set get_user_permissions resolves
\* for c is exactly the set of names of the assignment rows whose coach_id is
\* c.id (no base set, and no row of a User with the same numeric id).
C12_CoachPermissionResolution ==
  \A c \in coaches : get_user_permissions(c) = AssignedNamesOfCoach(c.id)

\* ------------------------------------------------------------------------
\* Specification of the assignment operations: the repository's
\* assign_permission and revoke_permission called with every combination of
\* target ids, next to the service's operations.  Same initial state.
\* ------------------------------------------------------------------------
\* UserPermissionRepository.assign_permission: a ValueError when both ids are
\* None, the INSERT and its commit otherwise
UserPermissionRepository_assign_permission(permission_id, assigned_by, user_id, coach_id) ==
  LET row == NewAssignment(user_permissions, permission_id, user_id, coach_id)
      target == IF user_id # None THEN user_id ELSE coach_id IN
  IF user_id = None /\ coach_id = None
  THEN /\ Respond("repository_assign", 500, "ValueError", assigned_by, target)
       /\ UNCHANGED << school_db, db, now, rpc, apc, lineage >>
  ELSE IF IntegrityError(user_permissions, row)
  THEN /\ Respond("repository_assign", 500, "IntegrityError", assigned_by, target)
       /\ UNCHANGED << school_db, db, now, rpc, apc, lineage >>
  ELSE /\ row.id <= MaxAssignments
       /\ user_permissions' = user_permissions \cup {row}
       /\ Respond("repository_assign", 200, "assigned", assigned_by, target)
       /\ UNCHANGED << school_db, users, coaches, refresh_tokens, now, rpc, apc, lineage >>

\* UserPermissionRepository.revoke_permission: the first matching row is
\* deleted
UserPermissionRepository_revoke_permission(permission_id, user_id, coach_id) ==
  LET found == RevokeTarget(permission_id, user_id, coach_id)
      target == IF user_id # None THEN user_id ELSE coach_id IN
  IF found = NoRow
  THEN /\ Respond("repository_revoke", 200, "False", None, target)
       /\ UNCHANGED << school_db, db, now, rpc, apc, lineage >>
  ELSE /\ user_permissions' = user_permissions \ {found}
       /\ Respond("repository_revoke", 200, "True", None, target)
       /\ UNCHANGED << school_db, users, coaches, refresh_tokens, now, rpc, apc, lineage >>

RepositoryUserIds == {None, 2}
RepositoryCoachIds == {None, 1}

NextRepository ==
  \/ \E permission_id \in CheckedPermissionIds, user_id \in RepositoryUserIds,
        coach_id \in RepositoryCoachIds :
       UserPermissionRepository_assign_permission(permission_id, InitialAdmin.id, user_id, coach_id)
  \/ \E permission_id \in CheckedPermissionIds, user_id \in RepositoryUserIds,
        coach_id \in RepositoryCoachIds :
       UserPermissionRepository_revoke_permission(permission_id, user_id, coach_id)
  \/ \E token \in AdminTokens, permission \in CheckedPermissions :
       AssignPermissionReq(token, 2, permission)
  \/ \E token \in AdminTokens, permission \in CheckedPermissions :
       RevokePermissionReq(token, 2, permission)
  \/ \E permission_id \in CheckedPermissionIds, user_id \in ByIdUserIds, coach_id \in ByIdCoachIds :
       PermissionService_assign_permission_by_id(permission_id, InitialAdmin, user_id, coach_id)
  \/ \E permission_id \in CheckedPermissionIds, user_id \in ByIdUserIds, coach_id \in ByIdCoachIds :
       PermissionService_revoke_permission_by_id(permission_id, InitialAdmin, user_id, coach_id)

SpecRepository == InitAuth /\ [][NextRepository]_vars

\* ------------------------------------------------------------------------
\* Specification of cascades: the user and the coach named "carter" log in
\* and rotate, permissions are assigned to them through the endpoint and by
\* id, and the admin deletes the user and the coach.  Same initial state.
\* ------------------------------------------------------------------------
NextCascade ==
  \/ \E username \in SessionUsernames, password \in LoginPasswords : Login(username, password)
  \/ \E refresh_token \in RefreshTokenStrings : RefreshTokens(refresh_token)
  \/ \E token \in AdminTokens, permission \in CheckedPermissions :
       AssignPermissionReq(token, 2, permission)
  \/ \E permission_id \in CheckedPermissionIds, user_id \in ByIdUserIds, coach_id \in ByIdCoachIds :
       PermissionService_assign_permission_by_id(permission_id, InitialAdmin, user_id, coach_id)
  \/ \E token \in AdminTokens : DeleteUserReq(token, 2)
  \/ \E token \in AdminTokens : DeleteCoachReq(token, 1)

SpecCascade == InitAuth /\ [][NextCascade]_vars

\* ------------------------------------------------------------------------
\* Claims about the permission gates (checked under SpecGate, SpecCreate and
\* SpecAccess)
\* ------------------------------------------------------------------------
\* the effective permission set of a stored User row
EffectivePermissions(u) == ROLE_BASE_PERMISSIONS[u.role] \cup AssignedNamesOfUser(u.id)

\* C13: for every manager and target among the stored users,
\* can_manage_permissions is true exactly when they are different users, the
\* manager's role is admin and the manager's effective permission set holds
\* assign_permissions; it is false for manager = target.
C13_CanManagePermissions ==
  \A manager \in users, target \in users :
    /\ can_manage_permissions(manager, target)
         <=> /\ manager.id # target.id
             /\ manager.role = "admin"
             /\ "assign_permissions" \in EffectivePermissions(manager)
    /\ ~can_manage_permissions(manager, manager)

\* C13 witness: a user that is no admin and holds an assign_permissions row
\* asked to assign a permission to another user and was refused
C13_Witness ==
  /\ resp.op = "assign"
  /\ resp.status = 403
  /\ resp.detail = "You do not have permission to manage this user's permissions"
  /\ resp.actor # resp.target
  /\ "assign_permissions" \in AssignedNamesOfUser(resp.actor)
  /\ UserRepository_get_by_id(resp.actor).role # "admin"

\* C14: a create-user request of an authenticated creator for role R adds a
\* User row only if the creator's effective permission set, read before the
\* request, holds the permission mapped from R (admin -> create_admin,
\* coach -> create_coach, user -> create_user); a creator that lacks it is
\* answered 403 and the users table is unchanged; a creator that holds it
\* and names a free username gets the row created with role R.
C14_CreateGatedByRolePermission ==
  [][resp'.op = "create_user" =>
     \A token \in {t \in UserAccessTokens : t.claims.user_id = resp'.actor},
        username \in CreateUsernames, password \in Passwords, role \in UserRole :
       (/\ get_current_user(token).status = 200
        /\ CreateUserReq(token, username, password, role))
       => LET creator == get_current_user(token).user
              mapped == CASE role = "admin" -> "create_admin"
                          [] role = "coach" -> "create_coach"
                          [] role = "user" -> "create_user"
              held == mapped \in EffectivePermissions(creator) IN
          /\ users' # users => held
          /\ ~held => resp'.status = 403 /\ users' = users
          /\ (held /\ ~UserRepository_exists_by_username(username))
               => /\ resp'.status = 201
                  /\ \E created \in users' \ users :
                       /\ created.id = resp'.target
                       /\ created.username = username
                       /\ created.role = role
                       /\ users' = users \cup {created}]_vars

\* C14 witness: a creator of role user that holds the mapped permission only
\* through an assignment row created a user of the requested role
C14_Witness ==
  /\ resp.op = "create_user"
  /\ resp.status = 201
  /\ \E creator \in users, created \in users :
       /\ creator.id = resp.actor
       /\ created.id = resp.target
       /\ creator.role = "user"
       /\ get_create_permission_for_role(created.role) \notin ROLE_BASE_PERMISSIONS["user"]
       /\ get_create_permission_for_role(created.role) \in AssignedNamesOfUser(creator.id)

\* C15: a DELETE /users/{id} request of an authenticated deleter for a stored
\* target t removes t only if the deleter's effective permission set holds
\* the delete permission keyed by t.role (user -> delete_user,
\* coach -> delete_coach, admin -> delete_admin); a deleter that lacks it,
\* whatever other delete permission it holds, is answered 403 and the users
\* table is unchanged.
C15_DeleteGatedByTargetRole ==
  [][resp'.op = "delete_user" =>
     \A token \in {t \in UserAccessTokens : t.claims.user_id = resp'.actor},
        user_id \in {resp'.target} :
       (/\ get_current_user(token).status = 200
        /\ UserRepository_get_by_id(user_id) # NoRow
        /\ DeleteUserReq(token, user_id))
       => LET deleter == get_current_user(token).user
              t == UserRepository_get_by_id(user_id)
              keyed == CASE t.role = "admin" -> "delete_admin"
                         [] t.role = "coach" -> "delete_coach"
                         [] t.role = "user" -> "delete_user"
              held == keyed \in EffectivePermissions(deleter) IN
          /\ t \notin users' => held
          /\ ~held => resp'.status = 403 /\ users' = users]_vars

\* C15 witness: a deleter that holds delete_user through an assignment row
\* asked to delete an admin and was refused, the admin still stored
C15_Witness ==
  /\ resp.op = "delete_user"
  /\ resp.status = 403
  /\ "delete_user" \in AssignedNamesOfUser(resp.actor)
  /\ \E t \in users : t.id = resp.target /\ t.role = "admin"

\* the user of the end-to-end scenario: role user, holding its role base set
\* and the single assigned permission delete_user
ScenarioUser(u) ==
  /\ u \in users
  /\ u.role = "user"
  /\ AssignedNamesOfUser(u.id) = {"delete_user"}

\* C16 as stated: every request of the scenario user to delete a coach
\* succeeds and every request of it to delete an admin is answered 403.
C16_ScenarioAsStated ==
  [][/\ resp'.op = "delete_user" =>
       \A token \in {t \in UserAccessTokens : t.claims.user_id = resp'.actor},
          user_id \in {resp'.target} :
         (/\ get_current_user(token).status = 200
          /\ ScenarioUser(get_current_user(token).user)
          /\ UserRepository_get_by_id(user_id) # NoRow
          /\ DeleteUserReq(token, user_id))
         => LET t == UserRepository_get_by_id(user_id) IN
            /\ t.role = "coach" => resp'.status = 200 /\ t \notin users'
            /\ t.role = "admin" => resp'.status = 403 /\ users' = users
     /\ resp'.op = "delete_coach" =>
       \A token \in {t \in UserAccessTokens : t.claims.user_id = resp'.actor},
          coach_id \in {resp'.target} :
         (/\ get_current_user(token).status = 200
          /\ ScenarioUser(get_current_user(token).user)
          /\ CoachRepository_get_by_id(coach_id) # NoRow
          /\ DeleteCoachReq(token, coach_id))
         => resp'.status = 204 /\ CoachRepository_get_by_id(coach_id) \notin coaches']_vars

\* C16 amended: every request of the scenario user to delete a coach, through
\* DELETE /users/{id} on the user row of role coach or through
\* DELETE /coaches/{id}, is answered 403 and removes nothing, and every
\* request of it to delete an admin is answered 403 and removes nothing.
C16_ScenarioCoachAndAdminRefused ==
  [][/\ resp'.op = "delete_user" =>
       \A token \in {t \in UserAccessTokens : t.claims.user_id = resp'.actor},
          user_id \in {resp'.target} :
         (/\ get_current_user(token).status = 200
          /\ ScenarioUser(get_current_user(token).user)
          /\ UserRepository_get_by_id(user_id) # NoRow
          /\ UserRepository_get_by_id(user_id).role \in {"coach", "admin"}
          /\ DeleteUserReq(token, user_id))
         => /\ resp'.status = 403
            /\ resp'.detail = "Missing required permission"
            /\ users' = users /\ coaches' = coaches
     /\ resp'.op = "delete_coach" =>
       \A token \in {t \in UserAccessTokens : t.claims.user_id = resp'.actor},
          coach_id \in {resp'.target} :
         (/\ get_current_user(token).status = 200
          /\ ScenarioUser(get_current_user(token).user)
          /\ CoachRepository_get_by_id(coach_id) # NoRow
          /\ DeleteCoachReq(token, coach_id))
         => /\ resp'.status = 403
            /\ resp'.detail = "Admin privileges required"
            /\ users' = users /\ coaches' = coaches]_vars

\* C16 witness: the scenario user asked to delete the user row of a coach
\* and was refused, the coach's rows still stored
C16_Witness ==
  /\ resp.op = "delete_user"
  /\ resp.status = 403
  /\ \E u \in users, t \in users :
       /\ ScenarioUser(u)
       /\ u.id = resp.actor
       /\ t.id = resp.target
       /\ t.role = "coach"
       /\ CoachRepository_get_by_username(t.username) # NoRow

\* C17: for every stored actor and every target id, can_access_user is true
\* exactly when the actor's effective permission set holds view_all_users, or
\* the target id is the actor's own id and the set holds view_own_profile;
\* can_edit_user likewise with edit_all_users and edit_own_profile.
C17_ProfileAccessPredicates ==
  \A actor \in users, target_id \in UserIds :
    /\ can_access_user(target_id, actor)
         <=> \/ "view_all_users" \in EffectivePermissions(actor)
             \/ /\ actor.id = target_id
                /\ "view_own_profile" \in EffectivePermissions(actor)
    /\ can_edit_user(target_id, actor)
         <=> \/ "edit_all_users" \in EffectivePermissions(actor)
             \/ /\ actor.id = target_id
                /\ "edit_own_profile" \in EffectivePermissions(actor)

\* C17 witness: an actor that is no admin and holds view_all_users through an
\* assignment row viewed another user's profile, while it holds no
\* edit_all_users and so may edit only its own
C17_Witness ==
  /\ resp.op = "get_user"
  /\ resp.status = 200
  /\ resp.actor # resp.target
  /\ \E actor \in users :
       /\ actor.id = resp.actor
       /\ actor.role # "admin"
       /\ AssignedNamesOfUser(actor.id) = {"view_all_users"}
       /\ ~can_edit_user(resp.target, actor)
       /\ can_edit_user(actor.id, actor)

\* ------------------------------------------------------------------------
\* Claims about logout and revocation (checked under SpecAuth)
\* ------------------------------------------------------------------------
\* C18: a logout of a resolved identity with a refresh token string that is
\* unknown or already revoked reports false ("Token already revoked or
\* invalid") and changes no state; with a stored token that is not revoked it
\* sets is_revoked and reports true ("Successfully logged out").
C18_BenignRevocation ==
  [][\A token \in LogoutTokens, refresh_token \in RefreshTokenStrings :
       (/\ resp'.op = "logout"
        /\ get_current_identity(token).status = 200
        /\ Logout(token, refresh_token))
       => LET row == RefreshTokenRepository_get_by_token(refresh_token) IN
          IF row = NoRow \/ row.is_revoked
          THEN /\ resp'.detail = "Token already revoked or invalid"
               /\ refresh_tokens' = refresh_tokens
          ELSE /\ resp'.detail = "Successfully logged out"
               /\ refresh_tokens' = (refresh_tokens \ {row})
                                      \cup {[row EXCEPT !.is_revoked = TRUE]}]_vars

\* the refresh-token rows of a principal
RefreshTokensOf(principal_type, principal) ==
  {r \in refresh_tokens :
     IF principal_type = "user" THEN r.user_id = principal.id ELSE r.coach_id = principal.id}

\* C19: once logout or rotation has revoked a refresh token of a stored,
\* active principal, every access token issued to it that has not expired
\* still resolves through get_current_identity to that principal, also when
\* every refresh token of the principal is revoked.
C19_AccessTokensIgnoreRevocation ==
  /\ \A u \in users, t \in IssueTimes :
       (/\ u.is_active
        /\ t + (ACCESS_TOKEN_EXPIRE_MINUTES \div MinutesPerDay) >= now
        /\ \E r \in RefreshTokensOf("user", u) : r.is_revoked)
       => LET identity == get_current_identity(AccessTokenOf("user", u, t)) IN
          identity.status = 200 /\ identity.subject_type = "user" /\ identity.user = u
  /\ \A c \in coaches, t \in IssueTimes :
       (/\ c.is_active
        /\ t + (ACCESS_TOKEN_EXPIRE_MINUTES \div MinutesPerDay) >= now
        /\ \E r \in RefreshTokensOf("coach", c) : r.is_revoked)
       => LET identity == get_current_identity(AccessTokenOf("coach", c, t)) IN
          identity.status = 200 /\ identity.subject_type = "coach" /\ identity.coach = c

\* C19 witness: an access token issued on an earlier day was resolved to its
\* user after a logout left every refresh token of that user revoked
C19_Witness ==
  /\ resp.op = "get_current_identity"
  /\ resp.status = 200
  /\ resp.presented # None
  /\ resp.presented < now
  /\ \E u \in users :
       /\ u.id = resp.actor
       /\ RefreshTokensOf("user", u) # {}
       /\ \A r \in RefreshTokensOf("user", u) : r.is_revoked

\* ------------------------------------------------------------------------
\* Claims about the assignment rows (checked under SpecRepository)
\* ------------------------------------------------------------------------
\* C20: after any sequence of assign and revoke operations of the service
\* and of the repository, every assignment row has exactly one of user_id
\* and coach_id set: never both, never neither.
C20_ExactlyOneTarget ==
  \A a \in user_permissions : (a.user_id = None) # (a.coach_id = None)

\* ------------------------------------------------------------------------
\* Claims about the by-id assignment contract (checked under SpecPerm)
\* ------------------------------------------------------------------------
\* ------------------------------------------------------------------------
\* Attendance (services/attendance_service.py) and physical-assessment
\* sessions with results (services/physical_assessment_service.py)
\* ------------------------------------------------------------------------
\* records (results) a payload lists at most
MaxRecords == 2

\* schools, batches and students: the rows present; no operation modelled
\* here writes these tables.  Batch.coach_id is the coach of the batch's
\* first CoachBatch assignment, Student.batch the row of its batch_id
schools == {[id |-> 1], [id |-> 2]}

batches == {[id |-> 1, school_id |-> 1, coach_id |-> 1],
            [id |-> 2, school_id |-> 2, coach_id |-> None]}

students == {[id |-> 1, batch_id |-> 1], [id |-> 2, batch_id |-> 1], [id |-> 3, batch_id |-> 2]}

SchoolRepository_get_by_id(school_id) == First({s \in schools : s.id = school_id})
BatchRepository_get_by_id(batch_id) == First({b \in batches : b.id = batch_id})
StudentRepository_get_by_id(student_id) == First({s \in students : s.id = student_id})

\* dependencies.require_role(*allowed_roles)
require_role(token, allowed_roles) ==
  LET auth == get_current_user(token) IN
  IF auth.status # 200 THEN auth
  ELSE IF auth.user.role \notin allowed_roles
  THEN [status |-> 403, detail |-> "Insufficient privileges",
        subject_type |-> NoneStr, user |-> NoRow, coach |-> NoRow]
  ELSE auth

\* _coerce_status_value for a str; NoneStr stands for the HTTPException(400).
\* normalized is raw_status.strip().lower() on the strings the payloads carry
_coerce_status_value(raw_status) ==
  LET normalized == CASE raw_status = "Present" -> "present"
                      [] raw_status = " A" -> "a"
                      [] OTHER -> raw_status
  IN
  IF normalized \in {"present", "p", "1", "true", "yes"} THEN "Present"
  ELSE IF normalized \in {"absent", "a", "0", "false", "no"} THEN "Absent"
  ELSE NoneStr

\* _update_attendance_records, one loop iteration per call.  acc is the loop
\* state: the error raised (status, detail), students_updated, the
\* AttendanceRecord objects the Session holds with their in-memory status
\* (loaded) and the objects passed to db.add and not yet flushed (added).
\* SessionLocal has autoflush=False, so the SELECT for `existing` sees the
\* rows of the table, as the objects already loaded, and none of `added`.
RECURSIVE _update_attendance_records(_, _, _)
_update_attendance_records(session, records, acc) ==
  IF records = << >> \/ acc.status # 200 THEN acc
  ELSE
    LET rec == Head(records)
        student == StudentRepository_get_by_id(rec.id)
        existing == First({r \in acc.loaded : r.session_id = session.id /\ r.student_id = rec.id})
        status_enum == _coerce_status_value(rec.status)
        \* _validate_student_membership raises no HTTPException
        batch == BatchRepository_get_by_id(student.batch_id)
        is_member == batch # NoRow /\ batch.school_id = session.school_id
    IN
    IF student = NoRow
    THEN [acc EXCEPT !.status = 404, !.detail = "Student not found"]
    ELSE IF ~is_member
    THEN [acc EXCEPT !.status = 400, !.detail = "Student does not belong to school"]
    ELSE IF status_enum = NoneStr
    THEN [acc EXCEPT !.status = 400, !.detail = "Invalid attendance status value"]
    ELSE IF existing # NoRow
    THEN IF existing.status # status_enum
         THEN _update_attendance_records(session, Tail(records),
                [acc EXCEPT !.loaded = (@ \ {existing}) \cup {[existing EXCEPT !.status = status_enum]},
                            !.students_updated = @ + 1])
         ELSE _update_attendance_records(session, Tail(records), acc)
    ELSE _update_attendance_records(session, Tail(records),
           [acc EXCEPT !.added = Append(@, [session_id |-> session.id, student_id |-> student.id,
                                            status |-> status_enum]),
                       !.students_updated = @ + 1])

\* _ensure_coach_attendance: the coach_attendance table after the commit.
\* _resolve_coach looks the coach up by username (the coach rows carry no
\* display name that differs from it); existing is _fetch_coach_attendance
_ensure_coach_attendance(school, record_date, coach_name) ==
  LET coach == CoachRepository_get_by_username(coach_name)
      existing == First({a \in coach_attendance :
                           /\ a.coach_name = coach_name
                           /\ a.school_id = school.id
                           /\ a.date = record_date})
      coach_id == IF coach # NoRow THEN coach.id ELSE None
  IN
  IF existing # NoRow
  THEN (coach_attendance \ {existing}) \cup {[existing EXCEPT !.coach_id = coach_id]}
  ELSE coach_attendance \cup
         {[id |-> NextId(coach_attendance), coach_id |-> coach_id, coach_name |-> coach_name,
           school_id |-> school.id, date |-> record_date]}

\* the response to a request with a JSON body: the payload presented and the
\* count the body of the response reports
RespondPayload(op, status, detail, actor, target, payload, issued) ==
  resp' = [op |-> op, status |-> status, detail |-> detail, actor |-> actor,
           target |-> target, presented |-> payload, issued |-> issued]

\* POST /attendance/student -> attendance_service.mark_attendance
MarkAttendanceReq(token, payload) ==
  LET auth == require_role(token, {"admin", "coach"})
      school == SchoolRepository_get_by_id(payload.school_id)
      \* _get_or_create_session
      found == First({a \in attendance_sessions :
                        a.school_id = payload.school_id /\ a.date = payload.date})
      session == IF found # NoRow THEN found
                 ELSE [id |-> NextId(attendance_sessions), school_id |-> payload.school_id,
                       date |-> payload.date, taken_by_user_id |-> auth.user.id]
      result == _update_attendance_records(session, payload.records,
                  [status |-> 200, detail |-> "ok", students_updated |-> 0,
                   loaded |-> attendance_records, added |-> << >>])
      coach_name == payload.marked_by_coach
      Answer(status, detail, actor, target, students_updated) ==
        RespondPayload("mark_attendance", status, detail, actor, target, payload, students_updated)
      added == result.added
      \* the rows INSERTed for the pending objects, with their autoincrement ids
      flushed == {[id |-> NextId(attendance_records) + i - 1, session_id |-> added[i].session_id,
                   student_id |-> added[i].student_id, status |-> added[i].status]
                  : i \in DOMAIN added}
      \* UniqueConstraint uix_session_student on the rows the flush INSERTs
      violates_unique == \E i, j \in DOMAIN added :
                           /\ i # j
                           /\ added[i].session_id = added[j].session_id
                           /\ added[i].student_id = added[j].student_id
  IN
  /\ IF auth.status # 200
     THEN /\ Answer(auth.status, auth.detail, None, None, None)
          /\ UNCHANGED << attendance_sessions, attendance_records, coach_attendance >>
     ELSE IF school = NoRow
     THEN /\ Answer(404, "School not found", auth.user.id, None, None)
          /\ UNCHANGED << attendance_sessions, attendance_records, coach_attendance >>
     ELSE IF result.status # 200
     THEN \* HTTPException before db.commit(): the session is closed, nothing is stored
          /\ Answer(result.status, result.detail, auth.user.id, None, None)
          /\ UNCHANGED << attendance_sessions, attendance_records, coach_attendance >>
     ELSE IF violates_unique
     THEN \* db.commit() raises IntegrityError, which the endpoint turns into a 500
          /\ Answer(500, "IntegrityError", auth.user.id, None, None)
          /\ UNCHANGED << attendance_sessions, attendance_records, coach_attendance >>
     ELSE /\ attendance_sessions' = attendance_sessions \cup {session}
          /\ attendance_records' = result.loaded \cup flushed
          /\ coach_attendance' = IF coach_name # NoneStr
                                 THEN _ensure_coach_attendance(school, payload.date, coach_name)
                                 ELSE coach_attendance
          /\ Answer(201, "Attendance recorded successfully", auth.user.id,
                                session.id, result.students_updated)
  /\ UNCHANGED << db, now, rpc, apc, lineage, physical_assessment_sessions,
                  physical_assessment_details >>

\* PhysicalAssessmentService._resolve_relationships: the HTTPException it
\* raises (status, detail) or the resolved coach_id and school_id
_resolve_relationships(coach_id, school_id, batch_id) ==
  LET batch == BatchRepository_get_by_id(batch_id)
      school_id_1 == IF batch_id # None /\ batch # NoRow THEN batch.school_id ELSE school_id
      coach_id_1 == IF batch_id # None /\ batch # NoRow /\ coach_id = None /\ batch.coach_id # None
                    THEN batch.coach_id ELSE coach_id
      coach == CoachRepository_get_by_id(coach_id_1)
  IN
  IF batch_id # None /\ batch = NoRow
  THEN [status |-> 404, detail |-> "Batch not found"]
  ELSE IF batch_id # None /\ batch.coach_id # None /\ coach_id # None /\ batch.coach_id # coach_id
  THEN [status |-> 400, detail |-> "Coach does not match the batch assignment"]
  ELSE IF batch_id # None /\ school_id # None /\ school_id # batch.school_id
  THEN [status |-> 400, detail |-> "Batch and school mismatch"]
  ELSE IF coach_id_1 # None /\ coach = NoRow
  THEN [status |-> 404, detail |-> "Coach not found"]
  ELSE IF school_id_1 # None /\ SchoolRepository_get_by_id(school_id_1) = NoRow
  THEN [status |-> 404, detail |-> "School not found"]
  ELSE [status |-> 200, detail |-> "ok", coach_id |-> coach_id_1, school_id |-> school_id_1]

\* the ValueError create_session_with_results raises before it writes, in
\* the order of its checks, or NoneStr when every check passes
ResultsValueError(payload, current_user) ==
  LET actual_batch_student_ids == {s.id : s \in {x \in students : x.batch_id = payload.batch_id}}
      provided_ids == {payload.results[i].student_id : i \in DOMAIN payload.results}
      invalid_ids == provided_ids \ actual_batch_student_ids
      is_admin == current_user.role = "admin"
  IN
  IF actual_batch_student_ids = {} THEN "Batch has no students to record results for"
  ELSE IF Len(payload.results) # Cardinality(provided_ids)
  THEN "Duplicate student entries detected in results payload"
  ELSE IF invalid_ids # {} /\ ~(payload.admin_override /\ is_admin)
  THEN "Some student_ids do not belong to batch"
  ELSE IF payload.student_count # Cardinality(actual_batch_student_ids)
  THEN "student_count mismatch"
  ELSE IF \E i \in DOMAIN payload.results : payload.results[i].curl_up < 0
  THEN "Negative value for curl_up"
  ELSE NoneStr

\* Session.begin() on a Session made by SessionLocal (autocommit=False): a
\* Session that has executed a statement has begun its transaction, and
\* begin() then raises InvalidRequestError instead of opening one
Session_begin(in_transaction) == IF in_transaction THEN "InvalidRequestError" ELSE "begun"

\* POST /physical/sessions/create-with-results ->
\* PhysicalAssessmentService.create_session_with_results.  The endpoint's
\* coach check reads current_user.coach_profile, which no User has, and
\* never refuses
CreateSessionWithResultsReq(token, payload) ==
  LET auth == require_permission(token, "physical_sessions_add")
      refs == _resolve_relationships(payload.coach_id, payload.school_id, payload.batch_id)
      error == ResultsValueError(payload, auth.user)
      Answer(status, detail, actor, target) ==
        RespondPayload("create_session_with_results", status, detail, actor, target, payload, None)
      \* BatchRepository.get_by_id and the SELECT of the batch's student ids ran
      in_transaction == payload.batch_id # None
      new_session == [id |-> NextId(physical_assessment_sessions), coach_id |-> refs.coach_id,
                      school_id |-> refs.school_id, batch_id |-> payload.batch_id,
                      student_count |-> Cardinality({x \in students : x.batch_id = payload.batch_id})]
      results_to_insert ==
        {[id |-> NextId(physical_assessment_details) + i - 1, session_id |-> new_session.id,
          student_id |-> payload.results[i].student_id, curl_up |-> payload.results[i].curl_up,
          is_present |-> payload.results[i].curl_up # 0] : i \in DOMAIN payload.results}
  IN
  /\ IF auth.status # 200
     THEN /\ Answer(auth.status, auth.detail, None, None)
          /\ UNCHANGED << physical_assessment_sessions, physical_assessment_details >>
     ELSE IF payload.results = << >>
     THEN /\ Answer(400, "results must be a non-empty list", auth.user.id, None)
          /\ UNCHANGED << physical_assessment_sessions, physical_assessment_details >>
     ELSE IF payload.batch_id = None
     THEN /\ Answer(400, "batch_id is required when submitting results", auth.user.id, None)
          /\ UNCHANGED << physical_assessment_sessions, physical_assessment_details >>
     ELSE IF refs.status # 200
     THEN /\ Answer(refs.status, refs.detail, auth.user.id, None)
          /\ UNCHANGED << physical_assessment_sessions, physical_assessment_details >>
     ELSE IF error # NoneStr
     THEN /\ Answer(400, error, auth.user.id, None)
          /\ UNCHANGED << physical_assessment_sessions, physical_assessment_details >>
     ELSE IF Session_begin(in_transaction) # "begun"
     THEN \* not an IntegrityError and not a ValueError: the endpoint answers 500
          /\ Answer(500, Session_begin(in_transaction), auth.user.id, None)
          /\ UNCHANGED << physical_assessment_sessions, physical_assessment_details >>
     ELSE /\ physical_assessment_sessions' = physical_assessment_sessions \cup {new_session}
          /\ physical_assessment_details' = physical_assessment_details \cup results_to_insert
          /\ Answer(201, "created", auth.user.id, new_session.id)
  /\ UNCHANGED << db, now, rpc, apc, lineage, attendance_sessions, attendance_records,
                  coach_attendance >>

\* the payloads of POST /attendance/student
\* the records: lists for students of school 1, a list with a student of
\* school 2, and one with a status that is no attendance status
AttendancePayloads ==
  LET items == [id : {1, 2}, status : {"Present", " A"}] IN
  [school_id : {1, 3}, date : {1},
   records : UNION {[1..n -> items] : n \in 1..MaxRecords}
             \cup {<< [id |-> 3, status |-> "Present"] >>, << [id |-> 1, status |-> "late"] >>},
   marked_by_coach : {NoneStr, UsernamePool[2]}]

\* the payloads of POST /physical/sessions/create-with-results
AssessmentPayloads ==
  LET AssessmentResultInputs == [student_id : {1, 3}, curl_up : {0 - 5, 10}] IN
  [coach_id : {None, 1}, school_id : {None}, batch_id : {None, 1, 3}, student_count : {1, 2},
   results : UNION {[1..n -> AssessmentResultInputs] : n \in 0..MaxRecords},
   admin_override : BOOLEAN]

\* the callers: the initial admin, and a coach
NextAttendance ==
  \E token \in AdminTokens \cup CoachAccessTokens, payload \in AttendancePayloads :
    MarkAttendanceReq(token, payload)

SpecAttendance == InitAuth /\ [][NextAttendance]_vars

NextAssessment ==
  \E token \in AdminTokens \cup CoachAccessTokens, payload \in AssessmentPayloads :
    CreateSessionWithResultsReq(token, payload)

SpecAssessment == InitAuth /\ [][NextAssessment]_vars

\* C21: every assign_permission_by_id or revoke_permission_by_id call that
\* does not supply exactly one of user_id and coach_id, 0 counting as
\* supplied, is answered 400 "Provide exactly one of user_id or coach_id"
\* and creates or deletes no assignment row.
C21_ContractValidation ==
  [][resp'.op \in {"assign_by_id", "revoke_by_id"} =>
     \A permission_id \in CheckedPermissionIds, user_id \in ByIdUserIds,
        coach_id \in ByIdCoachIds :
       (/\ (user_id = None) = (coach_id = None)
        /\ \/ PermissionService_assign_permission_by_id(permission_id, InitialAdmin,
                                                       user_id, coach_id)
           \/ PermissionService_revoke_permission_by_id(permission_id, InitialAdmin,
                                                       user_id, coach_id))
       => /\ resp'.status = 400
          /\ resp'.detail = "Provide exactly one of user_id or coach_id"
          /\ user_permissions' = user_permissions]_vars

\* ------------------------------------------------------------------------
\* Claims about usernames (checked under Spec)
\* ------------------------------------------------------------------------
\* C22: after any sequence of create-user, update-user, create-coach and
\* delete operations no username is held by a User row and a Coach row at
\* once, and usernames are unique within the users table and within the
\* coaches table.
C22_CombinedUsernameNamespace ==
  /\ \A u \in users, c \in coaches : u.username # c.username
  /\ \A u1 \in users, u2 \in users : u1.username = u2.username => u1 = u2
  /\ \A c1 \in coaches, c2 \in coaches : c1.username = c2.username => c1 = c2

\* ------------------------------------------------------------------------
\* Claims about login (checked under SpecAuth)
\* ------------------------------------------------------------------------
\* C23: a login with the username and password of a stored active coach
\* resolves the kind "coach", whatever User row carries role coach: the
\* response's user_type is "coach", the principal is that coach and the
\* refresh token it adds is owned by coach_id alone.
C23_CoachLoginResolvesAsCoach ==
  [][resp'.op = "login" =>
     \A username \in LoginUsernames, password \in LoginPasswords :
       \A c \in {x \in coaches : /\ x.username = username
                                 /\ x.is_active
                                 /\ PasswordHandler_verify(password, x.password)} :
         Login(username, password)
         => /\ resp'.status = 200
            /\ resp'.detail = "coach"
            /\ resp'.actor = c.id
            /\ \E row \in refresh_tokens' \ refresh_tokens :
                 row.coach_id = c.id /\ row.user_id = None]_vars

\* ------------------------------------------------------------------------
\* Claims about cascades (checked under SpecCascade)
\* ------------------------------------------------------------------------
\* C24: after any sequence of operations, deletions of a user or a coach
\* among them, every assignment row and every refresh-token row targets a
\* stored principal.
C24_CascadeOwnership ==
  /\ \A a \in user_permissions :
       /\ a.user_id # None => UserRepository_get_by_id(a.user_id) # NoRow
       /\ a.coach_id # None => CoachRepository_get_by_id(a.coach_id) # NoRow
  /\ \A r \in refresh_tokens :
       /\ r.user_id # None => UserRepository_get_by_id(r.user_id) # NoRow
       /\ r.coach_id # None => CoachRepository_get_by_id(r.coach_id) # NoRow

\* ------------------------------------------------------------------------
\* Claims about the token round trip (checked under SpecSession)
\* ------------------------------------------------------------------------
\* C25: for every stored user and coach, the access token create_tokens
\* issues to it with its own kind decodes, until it expires, to the claims
\* subject_type = kind, sub = username, type = "access", with user_id and
\* role for a user and with coach_id and neither user_id nor role for a
\* coach.
C25_TokenRoundTrip ==
  \A t \in {i \in IssueTimes : i + (ACCESS_TOKEN_EXPIRE_MINUTES \div MinutesPerDay) >= now} :
    /\ \A u \in users :
         LET payload == decode_token(AccessTokenOf("user", u, t), now) IN
         /\ payload # JWTError
         /\ DOMAIN payload = {"sub", "subject_type", "user_id", "role", "exp", "type", "iat"}
         /\ payload.subject_type = "user"
         /\ payload.sub = u.username
         /\ payload.user_id = u.id
         /\ payload.role = u.role
         /\ payload.type = "access"
    /\ \A c \in coaches :
         LET payload == decode_token(AccessTokenOf("coach", c, t), now) IN
         /\ payload # JWTError
         /\ DOMAIN payload = {"sub", "subject_type", "coach_id", "exp", "type", "iat"}
         /\ payload.subject_type = "coach"
         /\ payload.sub = c.username
         /\ payload.coach_id = c.id
         /\ payload.type = "access"

\* C25 witness: the access token issued to the coach on an earlier day was
\* decoded and resolved to the coach
C25_Witness ==
  /\ resp.op = "get_current_identity"
  /\ resp.status = 200
  /\ resp.presented # None
  /\ resp.presented < now
  /\ resp.actor = None
  /\ CoachRepository_get_by_id(resp.target) # NoRow

\* C26: a login with the username and the correct password of a stored user
\* whose is_active is false is answered 401, hands out no token and stores
\* no refresh token, also when an active coach carries the same username
\* and password.
C26_DeactivatedUserCannotLogIn ==
  [][resp'.op = "login" =>
     \A username \in LoginUsernames, password \in LoginPasswords :
       \A u \in {x \in users : /\ x.username = username
                               /\ ~x.is_active
                               /\ PasswordHandler_verify(password, x.password)} :
         Login(username, password)
         => /\ resp'.status = 401
            /\ resp'.detail = "Incorrect username or password"
            /\ resp'.issued = None
            /\ refresh_tokens' = refresh_tokens]_vars

\* C26 witness: a login was refused while the user of that name is
\* deactivated, an active coach carries the name and password, and the
\* admin, whose login is not refused, is active
C26_Witness ==
  /\ resp.op = "login"
  /\ resp.status = 401
  /\ \E u \in users, c \in coaches :
       /\ u.username = c.username
       /\ ~u.is_active
       /\ c.is_active
       /\ c.password = u.password
  /\ \A u \in users : ~u.is_active => u.username # INITIAL_ADMIN_USERNAME

\* C27: mark_attendance is idempotent: a second submission, by the same
\* caller, of the payload that was just recorded reports studentsUpdated = 0 and leaves the
\* attendance tables as they were, with one session per (school, date), one
\* record per (session, student) and one coach attendance row per
\* (coach_name, school, date)
C27_MarkAttendanceIdempotent ==
  [][(/\ resp.op = "mark_attendance" /\ resp.status = 201
      /\ resp'.op = "mark_attendance" /\ resp'.presented = resp.presented
      /\ resp'.actor = resp.actor)
     => /\ resp'.status = 201
        /\ resp'.issued = 0
        /\ attendance_sessions' = attendance_sessions
        /\ attendance_records' = attendance_records
        /\ coach_attendance' = coach_attendance
        /\ \A a, b \in attendance_sessions' :
             a.school_id = b.school_id /\ a.date = b.date => a = b
        /\ \A a, b \in attendance_records' :
             a.session_id = b.session_id /\ a.student_id = b.student_id => a = b
        /\ \A a, b \in coach_attendance' :
             a.coach_name = b.coach_name /\ a.school_id = b.school_id /\ a.date = b.date => a = b]_vars

\* a results payload the contract calls invalid: a negative value, a student
\* outside the batch without an admin's override, a student listed twice, or
\* a student_count that is not the size of the batch
ResultsInvalid(payload, current_user) ==
  LET in_batch == {x.id : x \in {y \in students : y.batch_id = payload.batch_id}} IN
  \/ \E i \in DOMAIN payload.results : payload.results[i].curl_up < 0
  \/ /\ \E i \in DOMAIN payload.results : payload.results[i].student_id \notin in_batch
     /\ ~(payload.admin_override /\ current_user.role = "admin")
  \/ \E i, j \in DOMAIN payload.results :
       i # j /\ payload.results[i].student_id = payload.results[j].student_id
  \/ payload.student_count # Cardinality(in_batch)

\* C28: create_session_with_results is all-or-nothing: for a non-empty list
\* of results on a stored batch, an invalid list is answered 400 and no
\* session and no detail row is persisted, and a valid one succeeds and
\* persists exactly one session and one detail row per submitted result
C28_AllOrNothing ==
  [][(/\ resp'.op = "create_session_with_results"
      /\ resp'.actor # None
      /\ resp'.presented.results # << >>
      /\ BatchRepository_get_by_id(resp'.presented.batch_id) # NoRow
      /\ resp'.status \notin {403, 404})
     => IF ResultsInvalid(resp'.presented, UserRepository_get_by_id(resp'.actor))
        THEN /\ resp'.status = 400
             /\ physical_assessment_sessions' = physical_assessment_sessions
             /\ physical_assessment_details' = physical_assessment_details
        ELSE /\ resp'.status = 201
             /\ \E new_session \in physical_assessment_sessions' \ physical_assessment_sessions :
                  /\ physical_assessment_sessions' = physical_assessment_sessions \cup {new_session}
                  /\ \A d \in physical_assessment_details' \ physical_assessment_details :
                       d.session_id = new_session.id
             /\ physical_assessment_details \subseteq physical_assessment_details'
             /\ Cardinality(physical_assessment_details' \ physical_assessment_details)
                  = Len(resp'.presented.results)]_vars

\* the stored, active principal that owns a refresh-token row
OwnerIsActive(row) ==
  \/ /\ row.user_id # None
     /\ \E u \in users : u.id = row.user_id /\ u.is_active
  \/ /\ row.user_id = None
     /\ row.coach_id # None
     /\ \E c \in coaches : c.id = row.coach_id /\ c.is_active

\* C29: a refresh presenting a token that is unknown, revoked, expired, or
\* owned by a missing or inactive principal is answered 401, hands out no
\* token and leaves the refresh_tokens table as it was (the token of a
\* deactivated principal stays non-revoked); a refresh that succeeds revokes
\* the presented token and stores one new token owned by the principal, same
\* id and same kind, that owned the presented one
C29_FailedRefreshChangesNothing ==
  [][resp'.op = "refresh" =>
     \A refresh_token \in {resp'.presented} :
       LET rows == {r \in refresh_tokens : r.token = refresh_token}
           usable == {r \in rows : ~r.is_revoked /\ ~(r.expires_at < now) /\ OwnerIsActive(r)}
       IN
       RefreshTokens(refresh_token)
       => /\ usable = {} => /\ resp'.status = 401
                            /\ resp'.issued = None
                            /\ refresh_tokens' = refresh_tokens
          /\ resp'.status = 200 =>
               \E old \in usable : \E new \in refresh_tokens' \ refresh_tokens :
                 /\ refresh_tokens' =
                      (refresh_tokens \ {old}) \cup {[old EXCEPT !.is_revoked = TRUE], new}
                 /\ new.token = resp'.issued
                 /\ ~new.is_revoked
                 /\ new.user_id = old.user_id
                 /\ new.coach_id = old.coach_id
                 /\ resp'.detail = (IF old.user_id # None THEN "user" ELSE "coach")
                 /\ resp'.actor = (IF old.user_id # None THEN old.user_id ELSE old.coach_id)]_vars

\* C29 witness: the refresh token of a stored, deactivated user was presented
\* before it expired and was refused, and it is still not revoked
C29_Witness ==
  /\ resp.op = "refresh"
  /\ resp.status = 401
  /\ resp.detail = "User not found or inactive"
  /\ \E r \in refresh_tokens : \E u \in users :
       /\ r.token = resp.presented
       /\ ~r.is_revoked
       /\ ~(r.expires_at < now)
       /\ u.id = r.user_id
       /\ ~u.is_active

\* the assignment rows that give the user the permission of that name
ExplicitRows(rows, user_id, permission) ==
  {a \in rows : a.user_id = user_id /\ AssignmentPermissionName(a) = permission}

\* C30: in every state every stored User's permission list holds the whole
\* base set of its role; a revoke of a permission the target holds through
\* its role only, with no assignment row, is answered 400 "Permission was not
\* assigned to user" and changes no row; an assign adds one row for a
\* permission that had none, and the revoke of that permission that follows
\* it succeeds and removes that row and nothing else, so the target's
\* permissions are again what they were before the assign
C30_RoleBaseNotRevocable ==
  /\ [](\A u \in users : ROLE_BASE_PERMISSIONS[u.role] \subseteq get_user_permissions(u))
  /\ [][/\ resp'.op = "revoke" =>
            \A token \in AdminTokens, user_id \in {resp'.target}, permission \in CheckedPermissions :
              \A target \in {u \in users : u.id = user_id /\ can_manage_permissions(InitialAdmin, u)} :
                (/\ RevokePermissionReq(token, user_id, permission)
                 /\ permission \in ROLE_BASE_PERMISSIONS[target.role]
                 /\ ExplicitRows(user_permissions, user_id, permission) = {})
                => /\ resp'.status = 400
                   /\ resp'.detail = "Permission was not assigned to user"
                   /\ user_permissions' = user_permissions
        /\ (resp'.op = "assign" /\ resp'.status = 200) =>
             \A token \in AdminTokens, user_id \in {resp'.target}, permission \in {resp'.detail} :
               AssignPermissionReq(token, user_id, permission)
               => /\ ExplicitRows(user_permissions, user_id, permission) = {}
                  /\ \E row \in ExplicitRows(user_permissions', user_id, permission) :
                       /\ row \notin user_permissions
                       /\ user_permissions' = user_permissions \cup {row}
        /\ (resp.op = "assign" /\ resp.status = 200 /\ resp'.op = "revoke") =>
             \A token \in AdminTokens, user_id \in {resp.target}, permission \in {resp.detail} :
               RevokePermissionReq(token, user_id, permission)
               => /\ resp'.status = 200
                  /\ \E row \in ExplicitRows(user_permissions, user_id, permission) :
                       user_permissions' = user_permissions \ {row}
                  /\ ExplicitRows(user_permissions', user_id, permission) = {}]_vars

\* C30 witness: a permission of the target's role base set was assigned to
\* it and revoked again, no row for it is left, and the target still holds it
C30_Witness ==
  /\ resp.op = "revoke"
  /\ resp.status = 200
  /\ \E u \in users :
       /\ u.id = resp.target
       /\ resp.detail \in ROLE_BASE_PERMISSIONS[u.role]
       /\ ExplicitRows(user_permissions, u.id, resp.detail) = {}
       /\ resp.detail \in get_user_permissions(u)

====
